---- MODULE Spec2Model ----
(***************************************************************************)
(* A model of the MacosUseSDK Python wrapper (python_wrapper/macos_use_sdk) *)
(*                                                                         *)
(* The wrapper shells out to native command-line tools and converts their  *)
(* exit code, stdout and stderr into typed results or exceptions.  The     *)
(* module holds six specifications over one set of variables:              *)
(*                                                                         *)
(*   Spec      one call on a MacosSDK instance: perform_action stage by    *)
(*             stage, or a single-tool operation                           *)
(*   SpecLive  Spec with the event loop's fairness                         *)
(*   SpecDiff  MacosSDK._generate_traversal_diff on parsed snapshots       *)
(*   SpecConc  several operations in flight on one MacosSDK instance       *)
(*   SpecCli   one run of the command-line program (cli.py)                *)
(*   SpecFind  an operation that takes a pid or an identifier, with the    *)
(*             lookup among the running applications step by step          *)
(*                                                                         *)
(* Python strings that the code searches or concatenates are sequences of  *)
(* one-character strings; a Python call that may raise evaluates to        *)
(* Ret(value) or Raise(type, message).                                     *)
(***************************************************************************)
EXTENDS Integers, Sequences, FiniteSets, TLC

VARIABLES
    sdk,        \* the MacosSDK instance
    pc,         \* where the call stands
    call,       \* the call being served, None before it
    options,    \* perform_action's validated options
    result,     \* perform_action's ActionResult under construction
    ret,        \* what the call returned or raised, None until then
    log,        \* tool starts, tool exits and sleeps, in order
    before, after, diff, d_pc,  \* SpecDiff: two snapshots and their diff
    c_pc,       \* SpecConc: where each concurrent call stands
    c_call,     \* SpecConc: each concurrent call
    c_proc,     \* SpecConc: what each call's own process did, None until then
    c_ret,      \* SpecConc: what each call returned or raised
    argv,       \* SpecCli: the parsed command line, None before parsing
    m_pc,       \* SpecCli: where cli.main stands
    printed,    \* SpecCli: what the process printed, stream by stream, in order
    status,     \* SpecCli: the exit status, None while the process runs
    running,    \* SpecFind: the list of running applications as a JArr, None before
    resolved    \* SpecFind: the pid the operation settled on, None if none

vars_call == <<sdk, pc, call, options, result, ret, log>>

vars_diff == <<before, after, diff, d_pc>>

vars_conc == <<c_pc, c_call, c_proc, c_ret>>

vars_cli == <<argv, m_pc, printed, status>>

vars_find == <<running, resolved>>

\* What a step of one call leaves alone.
vars_rest == <<before, after, diff, d_pc, c_pc, c_call, c_proc, c_ret,
              argv, m_pc, printed, status, running, resolved>>

vars == <<sdk, pc, call, options, result, ret, log, before, after, diff, d_pc,
          c_pc, c_call, c_proc, c_ret,
          argv, m_pc, printed, status, running, resolved>>

(***************************************************************************)
(* Bounds of the model.                                                    *)
(***************************************************************************)
\* Longest "elements" array of a traversal document.
MaxElems == 2

\* Operations in flight at once on one instance.
NumCalls == 2

(***************************************************************************)
(* Python values.                                                          *)
(***************************************************************************)
None == [t |-> "null"]

JStr(s) == [t |-> "str", v |-> s]

\* A Python str held in an Optional field.
PyStr(chars) == [t |-> "chars", v |-> chars]

JNum(n) == [t |-> "num", v |-> n]

JBool(b) == [t |-> "bool", v |-> b]

JArr(s) == [t |-> "arr", v |-> s]

JObj(f) == [t |-> "obj", v |-> f]

EmptyDict == JObj(<<>>)

EmptyList == JArr(<<>>)

\* The outcome of a Python call: a returned value or a raised exception.
Ret(v) == [ok |-> TRUE, val |-> v]

Raise(ty, m) == [ok |-> FALSE, exc |-> [type |-> ty, msg |-> m]]

\* dict.get(key, default)
Get(d, k, default) == IF k \in DOMAIN d THEN d[k] ELSE default

\* Python truthiness of a JSON-decoded value.
Truthy(j) ==
    CASE j.t = "null" -> FALSE
      [] j.t = "bool" -> j.v
      [] j.t = "num" -> j.v /= 0
      [] j.t = "str" -> j.v /= ""
      [] j.t = "chars" -> j.v /= <<>>
      [] j.t = "arr" -> Len(j.v) > 0
      [] j.t = "obj" -> DOMAIN j.v /= {}
      [] OTHER -> TRUE

(***************************************************************************)
(* Python str methods, on sequences of one-character strings.              *)
(***************************************************************************)
UpperCase ==
    <<"A", "B", "C", "D", "E", "F", "G", "H", "I", "J", "K", "L", "M",
      "N", "O", "P", "Q", "R", "S", "T", "U", "V", "W", "X", "Y", "Z">>

LowerCase ==
    <<"a", "b", "c", "d", "e", "f", "g", "h", "i", "j", "k", "l", "m",
      "n", "o", "p", "q", "r", "s", "t", "u", "v", "w", "x", "y", "z">>

Digits == <<"0", "1", "2", "3", "4", "5", "6", "7", "8", "9">>

Whitespace == {" ", "\n", "\t"}

\* str.lower()
Lower(s) ==
    [i \in 1..Len(s) |->
        IF \E k \in 1..26 : UpperCase[k] = s[i]
        THEN LowerCase[CHOOSE k \in 1..26 : UpperCase[k] = s[i]]
        ELSE s[i]]

\* sub in s
Contains(s, sub) ==
    \E i \in 0..(Len(s) - Len(sub)) : SubSeq(s, i + 1, i + Len(sub)) = sub

RECURSIVE LStrip(_)
LStrip(s) ==
    IF s /= <<>> /\ Head(s) \in Whitespace THEN LStrip(Tail(s)) ELSE s

RECURSIVE RStrip(_)
RStrip(s) ==
    IF s /= <<>> /\ s[Len(s)] \in Whitespace
    THEN RStrip(SubSeq(s, 1, Len(s) - 1))
    ELSE s

\* str.strip()
Strip(s) == RStrip(LStrip(s))

\* The index at which sub first occurs in s, or 0.
Find(s, sub) ==
    IF Contains(s, sub)
    THEN CHOOSE i \in 1..(Len(s) - Len(sub) + 1) :
            /\ SubSeq(s, i, i + Len(sub) - 1) = sub
            /\ \A j \in 1..(i - 1) : SubSeq(s, j, j + Len(sub) - 1) /= sub
    ELSE 0

RECURSIVE Split(_, _)
\* str.split(sep): the pieces of s between the occurrences of sep.
Split(s, sep) ==
    LET i == Find(s, sep)
    IN  IF i = 0 THEN <<s>>
        ELSE <<SubSeq(s, 1, i - 1)>> \o Split(SubSeq(s, i + Len(sep), Len(s)), sep)

RECURSIVE Replace(_, _, _)
\* str.replace(old, new)
Replace(s, old, new) ==
    LET i == Find(s, old)
    IN  IF i = 0 THEN s
        ELSE SubSeq(s, 1, i - 1) \o new
             \o Replace(SubSeq(s, i + Len(old), Len(s)), old, new)

IsDigit(c) == \E k \in 1..10 : Digits[k] = c

DigitValue(c) == (CHOOSE k \in 1..10 : Digits[k] = c) - 1

RECURSIVE DigitsValue(_)
DigitsValue(s) ==
    IF s = <<>> THEN 0
    ELSE 10 * DigitsValue(SubSeq(s, 1, Len(s) - 1)) + DigitValue(s[Len(s)])

RECURSIVE NatToStr(_)
NatToStr(n) ==
    IF n < 10 THEN <<Digits[n + 1]>>
    ELSE NatToStr(n \div 10) \o <<Digits[(n % 10) + 1]>>

\* str(n) for an int
IntToStr(n) == IF n < 0 THEN <<"-">> \o NatToStr(-n) ELSE NatToStr(n)

msg_invalid_literal ==
    <<"i", "n", "v", "a", "l", "i", "d", " ", "l", "i", "t", "e", "r", "a", "l">>

\* int(s): surrounding whitespace, an optional sign, decimal digits.
ParseInt(s) ==
    LET body == Strip(s)
        signed == body /= <<>> /\ Head(body) \in {"+", "-"}
        digits == IF signed THEN Tail(body) ELSE body
    IN  IF digits /= <<>> /\ \A i \in 1..Len(digits) : IsDigit(digits[i])
        THEN Ret(IF signed /\ Head(body) = "-"
                 THEN 0 - DigitsValue(digits) ELSE DigitsValue(digits))
        ELSE Raise("ValueError", msg_invalid_literal)

(***************************************************************************)
(* Message texts of the built-in exceptions the wrapper can run into.      *)
(***************************************************************************)
msg_no_get ==
    <<"o", "b", "j", "e", "c", "t", " ", "h", "a", "s", " ", "n", "o", " ",
      "a", "t", "t", "r", "i", "b", "u", "t", "e", " ", "'", "g", "e", "t", "'">>

msg_not_iterable ==
    <<"o", "b", "j", "e", "c", "t", " ", "i", "s", " ", "n", "o", "t", " ",
      "i", "t", "e", "r", "a", "b", "l", "e">>

msg_no_ax_element ==
    <<"'", "E", "l", "e", "m", "e", "n", "t", "D", "a", "t", "a", "'", " ",
      "o", "b", "j", "e", "c", "t", " ", "h", "a", "s", " ", "n", "o", " ",
      "a", "t", "t", "r", "i", "b", "u", "t", "e", " ",
      "'", "a", "x", "_", "e", "l", "e", "m", "e", "n", "t", "'">>

(***************************************************************************)
(* types.py: the dataclasses the traversal parser builds.                  *)
(***************************************************************************)
\* ElementData(role, text, x, y, width, height): these six fields and no other.
ElementData(role, text, x, y, width, height) ==
    [role |-> role, text |-> text, x |-> x, y |-> y,
     width |-> width, height |-> height]

Statistics(count, excluded_count, excluded_non_interactable, excluded_no_text, with_text_count, without_text_count, visible_elements_count, role_counts, browser_elements_count) ==
    [count |-> count, excluded_count |-> excluded_count,
     excluded_non_interactable |-> excluded_non_interactable,
     excluded_no_text |-> excluded_no_text,
     with_text_count |-> with_text_count,
     without_text_count |-> without_text_count,
     visible_elements_count |-> visible_elements_count,
     role_counts |-> role_counts,
     browser_elements_count |-> browser_elements_count]

BrowserElementData(elem) ==
    [tag_name |-> Get(elem, "tagName", JStr("")),
     id |-> Get(elem, "id", None),
     class_name |-> Get(elem, "className", None),
     text |-> Get(elem, "text", None),
     value |-> Get(elem, "value", None),
     placeholder |-> Get(elem, "placeholder", None),
     aria_label |-> Get(elem, "ariaLabel", None),
     role |-> Get(elem, "role", None),
     href |-> Get(elem, "href", None),
     src |-> Get(elem, "src", None),
     x |-> Get(elem, "x", None), y |-> Get(elem, "y", None),
     width |-> Get(elem, "width", None), height |-> Get(elem, "height", None)]

ResponseData(app_name, elements, stats, processing_time_seconds, is_browser, browser_data) ==
    [app_name |-> app_name, elements |-> elements, stats |-> stats,
     processing_time_seconds |-> processing_time_seconds,
     is_browser |-> is_browser, browser_data |-> browser_data]

TraversalDiff(added, removed, modified, stats_before, stats_after) ==
    [added_elements |-> added, removed_elements |-> removed,
     modified_elements |-> modified,
     stats_before |-> stats_before, stats_after |-> stats_after]

(***************************************************************************)
(* core.py: MacosSDK._parse_response_data                                  *)
(***************************************************************************)
\* What "for x in value" yields for a JSON-decoded value: Ret(sequence), or
\* TypeError for a value that is not iterable.
Iterate(j) ==
    CASE j.t = "arr" -> Ret(j.v)
      [] j.t = "obj" -> Ret([i \in 1..Cardinality(DOMAIN j.v) |-> JStr("key")])
      [] j.t = "str" -> Ret(IF j.v = "" THEN <<>> ELSE <<JStr(j.v)>>)
      [] OTHER -> Raise("TypeError", msg_not_iterable)

\* A stats parser that indexes the keys: KeyError for a missing one.
parse_stats_strict(stats_data) ==
    IF stats_data.t /= "obj"
    THEN Raise("AttributeError", msg_no_get)
    ELSE IF "count" \notin DOMAIN stats_data.v
    THEN Raise("KeyError", <<"'", "c", "o", "u", "n", "t", "'">>)
    ELSE Ret(Statistics(
            stats_data.v["count"],
            Get(stats_data.v, "excluded_count", JNum(0)),
            Get(stats_data.v, "excluded_non_interactable", JNum(0)),
            Get(stats_data.v, "excluded_no_text", JNum(0)),
            Get(stats_data.v, "with_text_count", JNum(0)),
            Get(stats_data.v, "without_text_count", JNum(0)),
            Get(stats_data.v, "visible_elements_count", JNum(0)),
            Get(stats_data.v, "role_counts", EmptyDict),
            Get(stats_data.v, "browser_elements_count", JNum(0))))

parse_stats(stats_data) ==
    IF stats_data.t /= "obj"
    THEN Raise("AttributeError", msg_no_get)
    ELSE Ret(Statistics(
            Get(stats_data.v, "count", JNum(0)),
            Get(stats_data.v, "excluded_count", JNum(0)),
            Get(stats_data.v, "excluded_non_interactable", JNum(0)),
            Get(stats_data.v, "excluded_no_text", JNum(0)),
            Get(stats_data.v, "with_text_count", JNum(0)),
            Get(stats_data.v, "without_text_count", JNum(0)),
            Get(stats_data.v, "visible_elements_count", JNum(0)),
            Get(stats_data.v, "role_counts", EmptyDict),
            Get(stats_data.v, "browser_elements_count", JNum(0))))

parse_element(elem_data) ==
    ElementData(Get(elem_data.v, "role", JStr("")),
                Get(elem_data.v, "text", None),
                Get(elem_data.v, "x", None),
                Get(elem_data.v, "y", None),
                Get(elem_data.v, "width", None),
                Get(elem_data.v, "height", None))

\* An element loop that rejects a traversal without elements.
parse_elements_nonempty(elems_json) ==
    LET it == Iterate(elems_json)
    IN  IF ~it.ok THEN it
        ELSE IF it.val = <<>>
        THEN Raise("MacosUseSDKError",
                   <<"n", "o", " ", "e", "l", "e", "m", "e", "n", "t", "s">>)
        ELSE IF \E i \in 1..Len(it.val) : it.val[i].t /= "obj"
        THEN Raise("AttributeError", msg_no_get)
        ELSE Ret([i \in 1..Len(it.val) |-> parse_element(it.val[i])])

parse_elements(elems_json) ==
    LET it == Iterate(elems_json)
    IN  IF ~it.ok THEN it
        ELSE IF \E i \in 1..Len(it.val) : it.val[i].t /= "obj"
        THEN Raise("AttributeError", msg_no_get)
        ELSE Ret([i \in 1..Len(it.val) |-> parse_element(it.val[i])])

parse_browser_data(json_data) ==
    IF ~Truthy(Get(json_data, "browser_data", None))
    THEN Ret(None)
    ELSE LET browser_json == json_data["browser_data"]
         IN  IF browser_json.t /= "obj"
             THEN Raise("AttributeError", msg_no_get)
             ELSE LET it == Iterate(Get(browser_json.v, "elements", EmptyList))
                  IN  IF ~it.ok THEN it
                      ELSE IF \E i \in 1..Len(it.val) : it.val[i].t /= "obj"
                      THEN Raise("AttributeError", msg_no_get)
                      ELSE Ret([url |-> Get(browser_json.v, "url", None),
                                title |-> Get(browser_json.v, "title", None),
                                elements |-> [i \in 1..Len(it.val) |->
                                    BrowserElementData(it.val[i].v)]])

parse_response_data(json_data) ==
    IF json_data.t /= "obj"
    THEN Raise("AttributeError", msg_no_get)
    ELSE LET stats == parse_stats(Get(json_data.v, "stats", EmptyDict))
             elements == parse_elements(Get(json_data.v, "elements", EmptyList))
             browser_data == parse_browser_data(json_data.v)
         IN  IF ~stats.ok THEN stats
             ELSE IF ~elements.ok THEN elements
             ELSE IF ~browser_data.ok THEN browser_data
             ELSE Ret(ResponseData(
                     Get(json_data.v, "app_name", JStr("")),
                     elements.val,
                     stats.val,
                     Get(json_data.v, "processing_time_seconds", JStr("0.000")),
                     Get(json_data.v, "is_browser", JBool(FALSE)),
                     browser_data.val))

(***************************************************************************)
(* core.py: MacosSDK._generate_traversal_diff                              *)
(***************************************************************************)
\* hasattr(obj, name) for a dataclass instance: its fields are its attributes.
HasAttr(obj, name) == name \in DOMAIN obj

\* dict[k] = v on an insertion-ordered dict, kept as a sequence of items.
DictSet(d, k, v) ==
    IF \E i \in 1..Len(d) : d[i].key = k
    THEN [i \in 1..Len(d) |-> IF d[i].key = k THEN [key |-> k, value |-> v] ELSE d[i]]
    ELSE Append(d, [key |-> k, value |-> v])

RECURSIVE DictOfElements(_, _)
\* {elem.ax_element: elem for elem in elements}, continued from dict d.
DictOfElements(elements, d) ==
    IF elements = <<>> THEN Ret(d)
    ELSE IF ~HasAttr(Head(elements), "ax_element")
    THEN Raise("AttributeError", msg_no_ax_element)
    ELSE DictOfElements(Tail(elements),
                        DictSet(d, Head(elements).ax_element, Head(elements)))

DictHasKey(d, k) == \E i \in 1..Len(d) : d[i].key = k

RECURSIVE ValuesNotIn(_, _)
\* [elem for k, elem in d.items() if k not in other]
ValuesNotIn(d, other) ==
    IF d = <<>> THEN <<>>
    ELSE IF DictHasKey(other, Head(d).key)
    THEN ValuesNotIn(Tail(d), other)
    ELSE <<Head(d).value>> \o ValuesNotIn(Tail(d), other)

generate_traversal_diff(b, a) ==
    LET before_elements == DictOfElements(b.elements, <<>>)
        after_elements == DictOfElements(a.elements, <<>>)
    IN  IF ~before_elements.ok THEN before_elements
        ELSE IF ~after_elements.ok THEN after_elements
        ELSE Ret(TraversalDiff(
                ValuesNotIn(after_elements.val, before_elements.val),
                ValuesNotIn(before_elements.val, after_elements.val),
                <<>>,
                b.stats,
                a.stats))

(***************************************************************************)
(* types.py: the exception classes.                                        *)
(***************************************************************************)
\* MacosUseSDKError and its five specializations (types.py:22-49).
SDKErrorTypes ==
    {"MacosUseSDKError", "AccessibilityError", "AppNotFoundError",
     "InputSimulationError", "FileSearchError", "OutputControllerError"}

\* isinstance(e, MacosUseSDKError): what "except MacosUseSDKError" catches.
IsSDKError(exc) == exc.type \in SDKErrorTypes

(***************************************************************************)
(* The external tools and what one invocation of a tool can do.            *)
(***************************************************************************)
AppOpenerTool ==
    <<"A", "p", "p", "O", "p", "e", "n", "e", "r", "T", "o", "o", "l">>

TraversalTool ==
    <<"T", "r", "a", "v", "e", "r", "s", "a", "l", "T", "o", "o", "l">>

HighlightTraversalTool ==
    <<"H", "i", "g", "h", "l", "i", "g", "h", "t", "T", "r", "a", "v", "e",
              "r", "s", "a", "l", "T", "o", "o", "l">>

InputControllerTool ==
    <<"I", "n", "p", "u", "t", "C", "o", "n", "t", "r", "o", "l", "l", "e",
              "r", "T", "o", "o", "l">>

VisualInputTool ==
    <<"V", "i", "s", "u", "a", "l", "I", "n", "p", "u", "t", "T", "o", "o",
              "l">>

FileSearchTool ==
    <<"F", "i", "l", "e", "S", "e", "a", "r", "c", "h", "T", "o", "o", "l">>

OutputControllerTool ==
    <<"O", "u", "t", "p", "u", "t", "C", "o", "n", "t", "r", "o", "l", "l",
              "e", "r", "T", "o", "o", "l">>

\* Standard output as raw text, or as the text a JSON encoder prints for doc.
Text(chars) == [t |-> "text", v |-> chars]

JsonText(doc) == [t |-> "json", v |-> doc]

\* The characters of a captured stdout (a JSON document abbreviated to "{}").
StdoutChars(out) == IF out.t = "text" THEN out.v ELSE <<"{", "}">>

\* One invocation of a tool: the executable is missing from the build
\* directory, it cannot be executed, or it runs and exits.
Missing == [start |-> "missing", returncode |-> 0, stdout |-> Text(<<>>), stderr |-> <<>>]

ExecError == [start |-> "oserror", returncode |-> 0, stdout |-> Text(<<>>), stderr |-> <<>>]

Exit(rc, out, err) == [start |-> "spawned", returncode |-> rc, stdout |-> out, stderr |-> err]

\* subprocess.CompletedProcess
CompletedProcess(o) ==
    [returncode |-> o.returncode, stdout |-> o.stdout, stderr |-> o.stderr]

(***************************************************************************)
(* core.py: MacosSDK._run_tool and MacosSDK._parse_json_response            *)
(***************************************************************************)
\* A failure message that names the tool and drops what it wrote to stderr.
tool_failed_terse(tool_name, stderr) ==
    tool_name \o
    <<" ", "f", "a", "i", "l", "e", "d">>

\* The message of the failure _run_tool raises for a non-zero exit.
tool_failed_message(tool_name, stderr) ==
    tool_name \o
    <<" ", "f", "a", "i", "l", "e", "d", ":", " ">>
    \o (IF stderr /= <<>> THEN Strip(stderr) ELSE
    <<"U", "n", "k", "n", "o", "w", "n", " ", "e", "r", "r", "o", "r">>
       )

\* _run_tool(tool_name, args) with check_returncode left at its default True,
\* as every caller leaves it; o is what the invocation does.
run_tool(swift_build_path, tool_name, o) ==
    CASE o.start = "missing" ->
            Raise("MacosUseSDKError",
    <<"T", "o", "o", "l", " ">>
                \o tool_name \o
    <<" ", "n", "o", "t", " ", "f", "o", "u", "n", "d", " ", "a", "t", " ">>
                \o swift_build_path \o <<"/">> \o tool_name)
      [] o.start = "oserror" ->
            Raise("PermissionError",
    <<"[", "E", "r", "r", "n", "o", " ", "1", "3", "]", " ", "P", "e", "r",
              "m", "i", "s", "s", "i", "o", "n", " ", "d", "e", "n", "i", "e", "d">>
                )
      [] OTHER ->
            IF o.returncode /= 0
            THEN Raise("MacosUseSDKError", tool_failed_message(tool_name, o.stderr))
            ELSE Ret(CompletedProcess(o))

\* json.loads on a captured stdout: a JSON document, a bare JSON integer, or
\* JSONDecodeError.
json_loads(out) ==
    IF out.t = "json" THEN Ret(out.v)
    ELSE LET body == Strip(out.v)
             digits == IF body /= <<>> /\ Head(body) = "-" THEN Tail(body) ELSE body
         IN  IF /\ digits /= <<>>
                /\ \A i \in 1..Len(digits) : IsDigit(digits[i])
                /\ (Len(digits) > 1 => Head(digits) /= "0")
             THEN Ret(JNum(ParseInt(body).val))
             ELSE Raise("JSONDecodeError",
    <<"E", "x", "p", "e", "c", "t", "i", "n", "g", " ", "v", "a", "l", "u",
              "e", ":", " ", "l", "i", "n", "e", " ", "1", " ", "c", "o", "l", "u",
              "m", "n", " ", "1", " ", "(", "c", "h", "a", "r", " ", "0", ")">>
                    )

\* A decoder whose failure names neither the response nor the decode error.
parse_json_unnamed(json_str, response_type) ==
    LET r == json_loads(json_str)
    IN  IF r.ok THEN r
        ELSE Raise("MacosUseSDKError",
    <<"F", "a", "i", "l", "e", "d", " ", "t", "o", " ", "p", "a", "r", "s",
              "e", " ", "J", "S", "O", "N">>
                )

parse_json_response(json_str, response_type) ==
    LET r == json_loads(json_str)
    IN  IF r.ok THEN r
        ELSE Raise("MacosUseSDKError",
    <<"F", "a", "i", "l", "e", "d", " ", "t", "o", " ", "p", "a", "r", "s",
              "e", " ">>
                \o response_type \o
    <<" ", "J", "S", "O", "N", " ", "r", "e", "s", "p", "o", "n", "s", "e",
              ":", " ">>
                \o r.exc.msg)

(***************************************************************************)
(* core.py: MacosSDK.open_application                                      *)
(***************************************************************************)
kw_not_found ==
    <<"n", "o", "t", " ", "f", "o", "u", "n", "d">>

kw_accessibility ==
    <<"a", "c", "c", "e", "s", "s", "i", "b", "i", "l", "i", "t", "y">>

kw_total_time ==
    <<"t", "o", "t", "a", "l", " ", "e", "x", "e", "c", "u", "t", "i", "o",
              "n", " ", "t", "i", "m", "e", ":">>

kw_success ==
    <<"S", "u", "c", "c", "e", "s", "s", ":">>

AppOpenerResult(pid, app_name, processing_time_seconds) ==
    [pid |-> pid, app_name |-> app_name,
     processing_time_seconds |-> processing_time_seconds]

RECURSIVE scan_processing_time_raw(_, _)
\* A loop that keeps what follows the marker as it stands, first line first.
scan_processing_time_raw(lines, processing_time) ==
    IF lines = <<>> THEN processing_time
    ELSE IF Contains(Head(lines), kw_total_time)
    THEN LET line == Head(lines)
             at == Find(line, kw_total_time)
         IN  Strip(SubSeq(line, at + Len(kw_total_time), Len(line)))
    ELSE scan_processing_time_raw(Tail(lines), processing_time)

RECURSIVE scan_processing_time(_, _)
\* The loop over stderr_lines: every line holding the marker overwrites
\* processing_time, so the last such line decides.
scan_processing_time(lines, processing_time) ==
    IF lines = <<>> THEN processing_time
    ELSE scan_processing_time(Tail(lines),
            IF Contains(Head(lines), kw_total_time)
            THEN LET pieces == Split(Head(lines), <<":">>)
                 IN  Replace(Strip(pieces[Len(pieces)]),
    <<" ", "s", "e", "c", "o", "n", "d", "s">>
                        , <<>>)
            ELSE processing_time)

open_application(self, identifier, o) ==
    LET completed == run_tool(self.swift_build_path, AppOpenerTool, o)
        pid == ParseInt(Strip(StdoutChars(completed.val.stdout)))
        body ==
            IF ~completed.ok THEN completed
            ELSE IF ~pid.ok THEN pid
            ELSE Ret(AppOpenerResult(pid.val, identifier,
                    scan_processing_time(Split(Strip(completed.val.stderr), <<"\n">>),
    <<"0", ".", "0", "0", "0">>
                        )))
    IN  IF ~body.ok /\ IsSDKError(body.exc)
           /\ Contains(Lower(body.exc.msg), kw_not_found)
        THEN Raise("AppNotFoundError",
    <<"A", "p", "p", "l", "i", "c", "a", "t", "i", "o", "n", " ", "n", "o",
              "t", " ", "f", "o", "u", "n", "d", ":", " ">>
                \o identifier)
        ELSE body

(***************************************************************************)
(* core.py: MacosSDK.traverse_accessibility_tree, highlight_elements       *)
(***************************************************************************)
\* str(pid_or_identifier) inside an f-string.
str_of(pid_or_identifier) ==
    IF pid_or_identifier.t = "num" THEN IntToStr(pid_or_identifier.v)
    ELSE pid_or_identifier.v

\* The handler with its two tests in the other order.
upgrade_not_found_first(body, pid_or_identifier) ==
    IF ~body.ok /\ IsSDKError(body.exc)
    THEN IF Contains(Lower(body.exc.msg), kw_not_found)
         THEN Raise("AppNotFoundError", body.exc.msg)
         ELSE IF Contains(Lower(body.exc.msg), kw_accessibility)
         THEN Raise("AccessibilityError", body.exc.msg)
         ELSE body
    ELSE body

\* The handler looking for "accessibility" in the message as it is written.
upgrade_case_sensitive(body, pid_or_identifier) ==
    IF ~body.ok /\ IsSDKError(body.exc)
    THEN IF Contains(body.exc.msg, kw_accessibility)
         THEN Raise("AccessibilityError", body.exc.msg)
         ELSE IF Contains(Lower(body.exc.msg), kw_not_found)
         THEN Raise("AppNotFoundError",
    <<"N", "o", " ", "a", "p", "p", "l", "i", "c", "a", "t", "i", "o", "n",
              " ", "f", "o", "u", "n", "d", " ", "f", "o", "r", " ", "i", "d", "e",
              "n", "t", "i", "f", "i", "e", "r", " ">>
                \o str_of(pid_or_identifier))
         ELSE body
    ELSE body

\* The handler both operations end with: "accessibility" is looked for
\* first, then "not found"; anything else is raised again unchanged.
upgrade_traversal_error(body, pid_or_identifier) ==
    IF ~body.ok /\ IsSDKError(body.exc)
    THEN IF Contains(Lower(body.exc.msg), kw_accessibility)
         THEN Raise("AccessibilityError", body.exc.msg)
         ELSE IF Contains(Lower(body.exc.msg), kw_not_found)
         THEN Raise("AppNotFoundError",
    <<"N", "o", " ", "a", "p", "p", "l", "i", "c", "a", "t", "i", "o", "n",
              " ", "f", "o", "u", "n", "d", " ", "f", "o", "r", " ", "i", "d", "e",
              "n", "t", "i", "f", "i", "e", "r", " ">>
                \o str_of(pid_or_identifier))
         ELSE body
    ELSE body

\* The try block of both operations: run the tool, decode, parse.
run_and_parse(self, tool_name, response_type, o) ==
    LET completed == run_tool(self.swift_build_path, tool_name, o)
        json_data == parse_json_response(completed.val.stdout, response_type)
    IN  IF ~completed.ok THEN completed
        ELSE IF ~json_data.ok THEN json_data
        ELSE parse_response_data(json_data.val)

\* A resolution that hands on whatever the lookup gave.
resolve_pid_unchecked(pid_or_identifier, found) ==
    IF pid_or_identifier.t = "chars" THEN Ret(found) ELSE Ret(pid_or_identifier)

\* "Resolve identifier to PID if needed", the head of both operations: for
\* a str, found is what find_running_app_pid returned and None raises; an
\* int is the pid.
resolve_pid(pid_or_identifier, found) ==
    IF pid_or_identifier.t = "chars"
    THEN IF found = None
         THEN Raise("AppNotFoundError",
    <<"N", "o", " ", "r", "u", "n", "n", "i", "n", "g", " ", "a", "p", "p", "l", "i",
    "c", "a", "t", "i", "o", "n", " ", "f", "o", "u", "n", "d", " ", "f", "o", "r",
    " ", "i", "d", "e", "n", "t", "i", "f", "i", "e", "r", ":", " ">>
                \o pid_or_identifier.v)
         ELSE Ret(found)
    ELSE Ret(pid_or_identifier)

\* traverse_accessibility_tree from its try block on, the pid resolved.
traverse_tool(self, pid_or_identifier, o) ==
    upgrade_traversal_error(
        run_and_parse(self, TraversalTool,
    <<"t", "r", "a", "v", "e", "r", "s", "a", "l">>
            , o), pid_or_identifier)

\* highlight_elements from its try block on, the pid resolved.
highlight_tool(self, pid_or_identifier, o) ==
    upgrade_traversal_error(
        run_and_parse(self, HighlightTraversalTool,
    <<"h", "i", "g", "h", "l", "i", "g", "h", "t", " ", "t", "r", "a", "v",
              "e", "r", "s", "a", "l">>
            , o), pid_or_identifier)

\* traverse_accessibility_tree(pid, only_visible_elements) for an int pid.
traverse_accessibility_tree(self, pid, o) == traverse_tool(self, JNum(pid), o)

\* highlight_elements(pid, duration) for an int pid.
highlight_elements(self, pid, o) == highlight_tool(self, JNum(pid), o)

(***************************************************************************)
(* core.py: MacosSDK.list_running_applications, find_running_app_pid       *)
(***************************************************************************)
RECURSIVE Join(_, _)
\* sep.join(pieces)
Join(pieces, sep) ==
    IF pieces = <<>> THEN <<>>
    ELSE IF Len(pieces) = 1 THEN pieces[1]
    ELSE pieces[1] \o sep \o Join(Tail(pieces), sep)

\* One entry of the list: {'pid': ..., 'bundle_id': ..., 'name': ...}
AppInfo(pid, bundle_id, name) == [pid |-> pid, bundle_id |-> bundle_id, name |-> name]

RECURSIVE parse_app_entries(_, _)
\* The loop over app_entries, each "AppName,PID,BundleID": an entry with
\* fewer than three parts or a PID that is no integer is skipped.
parse_app_entries(entries, apps) ==
    IF entries = <<>> THEN apps
    ELSE LET parts == Split(Head(entries), <<",">>)
             n == Len(parts)
             name == IF n > 3 THEN Join(SubSeq(parts, 1, n - 2), <<",">>)
                     ELSE parts[1]
             pid == ParseInt(parts[n - 1])
         IN  parse_app_entries(Tail(entries),
                IF n >= 3 /\ pid.ok
                THEN Append(apps, AppInfo(pid.val, parts[n], name))
                ELSE apps)

app_marker ==
    <<".", "a", "p", "p", "/", "C", "o", "n", "t", "e", "n", "t", "s", "/",
    "M", "a", "c", "O", "S", "/">>

\* str.split(None, 1) of a stripped line: the first word and the rest.
SplitFirstWord(s) ==
    LET spaces == {i \in 1..Len(s) : s[i] \in Whitespace}
        first == CHOOSE i \in spaces : \A j \in spaces : i <= j
    IN  IF s = <<>> THEN <<>>
        ELSE IF spaces = {} THEN <<s>>
        ELSE <<SubSeq(s, 1, first - 1), LStrip(SubSeq(s, first, Len(s)))>>

RECURSIVE parse_ps_lines(_, _)
\* The loop over the lines of "ps -eo pid,comm" after the header.
parse_ps_lines(lines, apps) ==
    IF lines = <<>> THEN apps
    ELSE LET parts == SplitFirstWord(Strip(Head(lines)))
             pid == ParseInt(parts[1])
             comm == parts[2]
             path == Split(Split(comm, app_marker)[1], <<"/">>)
             app_name == path[Len(path)]
         IN  parse_ps_lines(Tail(lines),
                IF Len(parts) >= 2 /\ pid.ok /\ Contains(comm, app_marker)
                THEN Append(apps, AppInfo(pid.val,
                        <<"u", "n", "k", "n", "o", "w", "n", ".">>
                            \o Lower(app_name), app_name))
                ELSE apps)

\* list_running_applications(): osa is what running osascript does and ps
\* what running ps does.  ps is run only when osascript could not be
\* started; an osascript that exits non-zero or prints nothing, and a ps that
\* cannot be started or exits non-zero (check=True), leave the list empty.
list_running_applications(osa, ps) ==
    IF osa.start = "spawned"
    THEN IF osa.returncode = 0 /\ Strip(StdoutChars(osa.stdout)) /= <<>>
         THEN parse_app_entries(
                Split(Strip(StdoutChars(osa.stdout)), <<",", " ">>), <<>>)
         ELSE <<>>
    ELSE IF ps.start = "spawned" /\ ps.returncode = 0
         THEN parse_ps_lines(
                Tail(Split(Strip(StdoutChars(ps.stdout)), <<"\n">>)), <<>>)
         ELSE <<>>

\* One loop over apps that takes the first app matching in any of the three
\* ways.
first_match_single_pass(apps, identifier) ==
    LET found == {i \in 1..Len(apps) :
                    \/ apps[i].bundle_id = identifier
                    \/ Lower(apps[i].name) = Lower(identifier)
                    \/ Contains(Lower(apps[i].name), Lower(identifier))}
    IN  IF found = {} THEN None
        ELSE JNum(apps[CHOOSE i \in found : \A j \in found : i <= j].pid)

\* The three loops of find_running_app_pid over apps: the first app with
\* that bundle id, else the first with that name whatever the case, else the
\* first whose name holds it whatever the case, else None.
first_match(apps, identifier) ==
    LET by_bundle_id == {i \in 1..Len(apps) : apps[i].bundle_id = identifier}
        by_name == {i \in 1..Len(apps) : Lower(apps[i].name) = Lower(identifier)}
        by_part == {i \in 1..Len(apps) :
                        Contains(Lower(apps[i].name), Lower(identifier))}
        found == IF by_bundle_id /= {} THEN by_bundle_id
                 ELSE IF by_name /= {} THEN by_name
                 ELSE by_part
    IN  IF found = {} THEN None
        ELSE JNum(apps[CHOOSE i \in found : \A j \in found : i <= j].pid)

\* find_running_app_pid(identifier)
find_running_app_pid(identifier, osa, ps) ==
    first_match(list_running_applications(osa, ps), identifier)

\* traverse_accessibility_tree(identifier, only_visible_elements) for a str
\* identifier; pid is what find_running_app_pid returned for it.
traverse_identifier(self, identifier, pid, o) ==
    LET r == resolve_pid(PyStr(identifier), pid)
    IN  IF ~r.ok THEN r ELSE traverse_tool(self, PyStr(identifier), o)

(***************************************************************************)
(* core.py: input simulation                                               *)
(***************************************************************************)
\* A handler that picks the error type from the words of the message, as the
\* traversal operations do, and falls back to ty.
wrap_sdk_error_by_keyword(body, ty, prefix) ==
    IF ~body.ok /\ IsSDKError(body.exc)
    THEN IF Contains(Lower(body.exc.msg), kw_accessibility)
         THEN Raise("AccessibilityError", prefix \o body.exc.msg)
         ELSE IF Contains(Lower(body.exc.msg), kw_not_found)
         THEN Raise("AppNotFoundError", prefix \o body.exc.msg)
         ELSE Raise(ty, prefix \o body.exc.msg)
    ELSE body

\* Wrap a MacosUseSDKError of body as error type ty with the prefix put
\* before its message; any other exception passes through.
wrap_sdk_error(body, ty, prefix) ==
    IF ~body.ok /\ IsSDKError(body.exc)
    THEN Raise(ty, prefix \o body.exc.msg)
    ELSE body

run_input_action(self, o) ==
    LET completed == run_tool(self.swift_build_path, InputControllerTool, o)
    IN  wrap_sdk_error(IF completed.ok THEN Ret(None) ELSE completed,
            "InputSimulationError",
    <<"I", "n", "p", "u", "t", " ", "s", "i", "m", "u", "l", "a", "t", "i",
              "o", "n", " ", "f", "a", "i", "l", "e", "d", ":", " ">>
            )

run_visual_input_action(self, o) ==
    LET completed == run_tool(self.swift_build_path, VisualInputTool, o)
    IN  wrap_sdk_error(IF completed.ok THEN Ret(None) ELSE completed,
            "InputSimulationError",
    <<"V", "i", "s", "u", "a", "l", " ", "i", "n", "p", "u", "t", " ", "s",
              "i", "m", "u", "l", "a", "t", "i", "o", "n", " ", "f", "a", "i", "l",
              "e", "d", ":", " ">>
            )

(***************************************************************************)
(* core.py: MacosSDK.search_files                                          *)
(***************************************************************************)
FileInfo(path, name, size, creation_date, modification_date, file_type) ==
    [path |-> path, name |-> name, size |-> size,
     creation_date |-> creation_date,
     modification_date |-> modification_date, file_type |-> file_type]

AllDigits(s, from, to) == \A i \in from..to : IsDigit(s[i])

\* datetime.fromisoformat: YYYY-MM-DD, optionally followed by a separator and
\* HH:MM:SS, optionally followed by a UTC offset +HH:MM.
fromisoformat(s) ==
    LET n == Len(s)
        date_ok ==
            /\ n >= 10
            /\ AllDigits(s, 1, 4) /\ s[5] = "-" /\ AllDigits(s, 6, 7)
            /\ s[8] = "-" /\ AllDigits(s, 9, 10)
            /\ DigitsValue(SubSeq(s, 1, 4)) >= 1
            /\ DigitsValue(SubSeq(s, 6, 7)) \in 1..12
            /\ DigitsValue(SubSeq(s, 9, 10)) \in 1..31
        time_ok ==
            /\ n >= 19
            /\ AllDigits(s, 12, 13) /\ s[14] = ":" /\ AllDigits(s, 15, 16)
            /\ s[17] = ":" /\ AllDigits(s, 18, 19)
            /\ DigitsValue(SubSeq(s, 12, 13)) < 24
            /\ DigitsValue(SubSeq(s, 15, 16)) < 60
            /\ DigitsValue(SubSeq(s, 18, 19)) < 60
        offset_ok ==
            /\ n = 25
            /\ s[20] \in {"+", "-"}
            /\ AllDigits(s, 21, 22) /\ s[23] = ":" /\ AllDigits(s, 24, 25)
    IN  IF date_ok /\ (n = 10 \/ (time_ok /\ (n = 19 \/ offset_ok)))
        THEN Ret([t |-> "datetime", iso |-> s])
        ELSE Raise("ValueError",
                <<"I", "n", "v", "a", "l", "i", "d", " ", "i", "s", "o", "f", "o", "r",
                "m", "a", "t", " ", "s", "t", "r", "i", "n", "g">>
                )

\* One optional date of a file entry: absent or falsy gives None, a string is
\* parsed with its "Z" replaced by "+00:00", anything else has no replace().
parse_file_date(file_data, key) ==
    LET value == Get(file_data, key, None)
    IN  IF ~Truthy(value) THEN Ret(None)
        ELSE IF value.t \notin {"str", "chars"}
        THEN Raise("AttributeError",
                <<"o", "b", "j", "e", "c", "t", " ", "h", "a", "s", " ", "n", "o", " ",
                "a", "t", "t", "r", "i", "b", "u", "t", "e", " ", "'", "r", "e", "p",
                "l", "a", "c", "e", "'">>
                )
        ELSE IF value.t = "str" THEN fromisoformat(<<>>)
        ELSE fromisoformat(Replace(value.v, <<"Z">>,
                <<"+", "0", "0", ":", "0", "0">>
                ))

RECURSIVE parse_files(_, _)
\* The loop over json_data["files"], continued from the files parsed so far.
parse_files(items, files) ==
    IF items = <<>> THEN Ret(files)
    ELSE IF Head(items).t /= "obj" THEN Raise("AttributeError", msg_no_get)
    ELSE LET file_data == Head(items).v
             creation_date == parse_file_date(file_data, "creationDate")
             modification_date == parse_file_date(file_data, "modificationDate")
         IN  IF ~creation_date.ok THEN creation_date
             ELSE IF ~modification_date.ok THEN modification_date
             ELSE parse_files(Tail(items), Append(files,
                    FileInfo(Get(file_data, "path", JStr("")),
                             Get(file_data, "name", JStr("")),
                             Get(file_data, "size", JNum(0)),
                             creation_date.val, modification_date.val,
                             Get(file_data, "fileType", JStr("")))))

search_files(self, o) ==
    LET completed == run_tool(self.swift_build_path, FileSearchTool, o)
        json_data == parse_json_response(completed.val.stdout,
                <<"f", "i", "l", "e", " ", "s", "e", "a", "r", "c", "h">>
            )
        items == Iterate(Get(json_data.val.v, "files", EmptyList))
        files == parse_files(items.val, <<>>)
        body ==
            IF ~completed.ok THEN completed
            ELSE IF ~json_data.ok THEN json_data
            ELSE IF json_data.val.t /= "obj" THEN Raise("AttributeError", msg_no_get)
            ELSE IF ~items.ok THEN items
            ELSE IF ~files.ok THEN files
            ELSE Ret([files |-> files.val,
                      total_count |-> Get(json_data.val.v, "totalCount",
                                          JNum(Len(files.val))),
                      execution_time |-> Get(json_data.val.v, "executionTime",
                                             JStr("0.000"))])
    IN  wrap_sdk_error(body, "FileSearchError",
                <<"F", "i", "l", "e", " ", "s", "e", "a", "r", "c", "h", " ", "f", "a",
                "i", "l", "e", "d", ":", " ">>
            )

(***************************************************************************)
(* core.py: MacosSDK._run_output_controller_action                         *)
(***************************************************************************)
\* float(s): an optional sign, then digits with at most one decimal point, or
\* one of the words inf, infinity, nan; the value is num * 10^(-scale).
ParseFloat(s) ==
    LET body == Strip(s)
        signed == body /= <<>> /\ Head(body) \in {"+", "-"}
        rest == IF signed THEN Tail(body) ELSE body
        dots == {i \in 1..Len(rest) : rest[i] = "."}
        digits == SelectSeq(rest, IsDigit)
        point == IF dots = {} THEN Len(rest) ELSE CHOOSE i \in dots : TRUE
    IN  IF Lower(rest) \in {<<"i", "n", "f">>, <<"n", "a", "n">>,
                            <<"i", "n", "f", "i", "n", "i", "t", "y">>}
        THEN Ret([t |-> "float", special |-> Lower(rest),
                  negative |-> signed /\ Head(body) = "-"])
        ELSE IF /\ digits /= <<>>
                /\ Cardinality(dots) <= 1
                /\ Len(digits) + Cardinality(dots) = Len(rest)
        THEN Ret([t |-> "float",
                  num |-> IF signed /\ Head(body) = "-"
                          THEN 0 - DigitsValue(digits) ELSE DigitsValue(digits),
                  scale |-> Len(rest) - point])
        ELSE Raise("ValueError",
                <<"c", "o", "u", "l", "d", " ", "n", "o", "t", " ", "c", "o", "n", "v",
                "e", "r", "t", " ", "s", "t", "r", "i", "n", "g", " ", "t", "o", " ",
                "f", "l", "o", "a", "t">>
                )

RECURSIVE scan_success_message(_)
\* The loop over stderr_lines: the first line holding the marker decides.
scan_success_message(lines) ==
    IF lines = <<>> THEN <<>>
    ELSE IF Contains(Head(lines), kw_success)
    THEN LET line == Head(lines)
             at == Find(line, kw_success)
         IN  Strip(SubSeq(line, at + Len(kw_success), Len(line)))
    ELSE scan_success_message(Tail(lines))

\* The operation without the "except ValueError: pass" around float().
run_output_controller_action_strict(self, o) ==
    LET completed == run_tool(self.swift_build_path, OutputControllerTool, o)
        value_output == Strip(StdoutChars(completed.val.stdout))
        parsed == ParseFloat(value_output)
        body ==
            IF ~completed.ok THEN completed
            ELSE IF value_output /= <<>> /\ ~parsed.ok THEN parsed
            ELSE Ret([value |-> IF value_output /= <<>>
                                THEN parsed.val ELSE None,
                      message |-> scan_success_message(
                                    Split(Strip(completed.val.stderr), <<"\n">>))])
    IN  wrap_sdk_error(body, "OutputControllerError",
                <<"O", "u", "t", "p", "u", "t", " ", "c", "o", "n", "t", "r", "o", "l",
                "l", "e", "r", " ", "o", "p", "e", "r", "a", "t", "i", "o", "n", " ",
                "f", "a", "i", "l", "e", "d", ":", " ">>
            )

run_output_controller_action(self, o) ==
    LET completed == run_tool(self.swift_build_path, OutputControllerTool, o)
        value_output == Strip(StdoutChars(completed.val.stdout))
        parsed == ParseFloat(value_output)
        body ==
            IF ~completed.ok THEN completed
            ELSE Ret([value |-> IF value_output /= <<>> /\ parsed.ok
                                THEN parsed.val ELSE None,
                      message |-> scan_success_message(
                                    Split(Strip(completed.val.stderr), <<"\n">>))])
    IN  wrap_sdk_error(body, "OutputControllerError",
                <<"O", "u", "t", "p", "u", "t", " ", "c", "o", "n", "t", "r", "o", "l",
                "l", "e", "r", " ", "o", "p", "e", "r", "a", "t", "i", "o", "n", " ",
                "f", "a", "i", "l", "e", "d", ":", " ">>
            )

(***************************************************************************)
(* The traversal documents the model feeds the parser.                     *)
(***************************************************************************)
\* Element objects as the traversal tool may print them: complete, without a
\* bounding box, carrying an extra identity key, and empty.
JsonElements ==
    { JObj([role |-> JStr("AXButton"), text |-> JStr("OK"),
            x |-> JNum(10), y |-> JNum(20), width |-> JNum(30), height |-> JNum(40)]),
      JObj([role |-> JStr("AXStaticText"), text |-> JStr("Hello")]),
      JObj([role |-> JStr("AXButton"), ax_element |-> JStr("e1")]),
      JObj([role |-> JStr("AXWindow"), ax_element |-> JStr("e2")]) }

RECURSIVE SeqsUpTo(_, _)
\* Every sequence over S of length at most n.
SeqsUpTo(S, n) ==
    IF n = 0 THEN {<<>>}
    ELSE LET shorter == SeqsUpTo(S, n - 1)
         IN  shorter \cup {Append(s, x) : s \in shorter, x \in S}

\* A well-formed traversal document with the "elements" array es.
SnapshotDoc(es) ==
    JObj([app_name |-> JStr("Calculator"),
          elements |-> JArr(es),
          stats |-> JObj([count |-> JNum(Len(es))])])

\* Well-formed traversal documents: an "elements" array of up to MaxElems elements.
SnapshotDocs == { SnapshotDoc(es) : es \in SeqsUpTo(JsonElements, MaxElems) }

Snapshots == { parse_response_data(doc).val : doc \in SnapshotDocs }

(***************************************************************************)
(* types.py: ActionOptions, ActionResult, PrimaryAction, InputAction       *)
(***************************************************************************)
\* Seconds are counted in tenths: 8 is 0.8 s, 2 is 0.2 s.
DefaultAnimationDuration == 8

DefaultDelayAfterAction == 2

ActionOptions(traverse_before, traverse_after, show_diff, only_visible_elements, show_animation, animation_duration, pid_for_traversal, delay_after_action) ==
    [traverse_before |-> traverse_before, traverse_after |-> traverse_after,
     show_diff |-> show_diff, only_visible_elements |-> only_visible_elements,
     show_animation |-> show_animation,
     animation_duration |-> animation_duration,
     pid_for_traversal |-> pid_for_traversal,
     delay_after_action |-> delay_after_action]

\* ActionOptions() with every field at its default.
DefaultActionOptions ==
    ActionOptions(FALSE, FALSE, FALSE, FALSE, TRUE,
                  DefaultAnimationDuration, None, DefaultDelayAfterAction)

\* A validation that hands the caller's options back as they are.
validated_as_given(self) == self

\* ActionOptions.validated: a copy, with both traversals forced on when a
\* diff is requested.
validated(self) ==
    LET copy == ActionOptions(self.traverse_before, self.traverse_after,
                        self.show_diff, self.only_visible_elements,
                        self.show_animation, self.animation_duration,
                        self.pid_for_traversal, self.delay_after_action)
    IN  IF copy.show_diff
        THEN [copy EXCEPT !.traverse_before = TRUE, !.traverse_after = TRUE]
        ELSE copy

\* ActionResult() with every field None.
ActionResult ==
    [open_result |-> None, traversal_pid |-> None,
     traversal_before |-> None, traversal_after |-> None,
     traversal_diff |-> None, primary_action_error |-> None,
     traversal_before_error |-> None, traversal_after_error |-> None]

InputKinds ==
    {"Click", "DoubleClick", "RightClick", "Type", "Press", "Move", "Scroll"}

\* The input kinds that have a visual variant (core.py:714-746).
VisualKinds == {"Click", "DoubleClick", "RightClick", "Move"}

\* The first argument _execute_input_action's callee hands the input tool.
InputVerb(kind) ==
    CASE kind = "Click" -> "click"
      [] kind = "DoubleClick" -> "doubleclick"
      [] kind = "RightClick" -> "rightclick"
      [] kind = "Type" -> "writetext"
      [] kind = "Press" -> "keypress"
      [] kind = "Move" -> "mousemove"
      [] kind = "Scroll" -> "scroll"

\* The tool _execute_input_action ends up running for an input action.
InputToolFor(action, opts) ==
    IF action.kind \in VisualKinds /\ opts.show_animation
    THEN VisualInputTool ELSE InputControllerTool

execute_input_action(self, action, opts, o) ==
    IF action.kind \in VisualKinds /\ opts.show_animation
    THEN run_visual_input_action(self, o)
    ELSE run_input_action(self, o)

(***************************************************************************)
(* The calls, and the tool outcomes, the model draws from.                 *)
(***************************************************************************)
BuildPath ==
        <<"/", "b">>

Calculator ==
        <<"C", "a", "l", "c", "u", "l", "a", "t", "o", "r">>

\* The process id callers pass for traversal.
CallerPid == 42

Stderrs ==
    { <<>>,
        <<" ", "\n">>,
        <<"E", "r", "r", "o", "r", ":", " ", "A", "p", "p", "l", "i", "c", "a",
        "t", "i", "o", "n", " ", "n", "o", "t", " ", "f", "o", "u", "n", "d">>,
        <<"A", "p", "p", " ", "N", "o", "t", " ", "F", "o", "u", "n", "d">>,
        <<"A", "c", "c", "e", "s", "s", "i", "b", "i", "l", "i", "t", "y", " ",
        "p", "e", "r", "m", "i", "s", "s", "i", "o", "n", " ", "d", "e", "n",
        "i", "e", "d">>,
        <<"a", "c", "c", "e", "s", "s", "i", "b", "i", "l", "i", "t", "y", " ",
        "e", "l", "e", "m", "e", "n", "t", " ", "n", "o", "t", " ", "f", "o",
        "u", "n", "d">>,
        <<"b", "o", "o", "m">>,
        <<"A", "c", "c", "e", "s", "s", "i", "b", "i", "l", "i", "t", "y",
        " ", "A", "P", "I", ":", " ", "w", "i", "n", "d", "o", "w", " ", "N",
        "o", "t", " ", "F", "o", "u", "n", "d">> }

TimingStderr ==
        <<"t", "o", "t", "a", "l", " ", "e", "x", "e", "c", "u", "t", "i", "o",
        "n", " ", "t", "i", "m", "e", ":", " ", "0", ".", "1", "2", "3", " ",
        "s", "e", "c", "o", "n", "d", "s">>

\* Two lines with the timing marker; the second has a colon in its value.
TwoTimingLines ==
        <<"t", "o", "t", "a", "l", " ", "e", "x", "e", "c", "u", "t", "i",
        "o", "n", " ", "t", "i", "m", "e", ":", " ", "1", " ", "s", "e", "c",
        "o", "n", "d", "s", "\n", "t", "o", "t", "a", "l", " ", "e", "x",
        "e", "c", "u", "t", "i", "o", "n", " ", "t", "i", "m", "e", ":", " ",
        "1", "2", ":", "3", "0">>

\* Two lines with the success marker after a line without it.
TwoSuccessLines ==
        <<"l", "o", "g", "\n", "S", "u", "c", "c", "e", "s", "s", ":", " ",
        "m", "u", "t", "e", "d", "\n", "S", "u", "c", "c", "e", "s", "s",
        ":", " ", "d", "o", "n", "e">>

FailCodes == {1, 2}

\* A tool that ran and exited non-zero, with every stderr text of the model.
FailExits == { Exit(rc, Text(<<>>), e) : rc \in FailCodes, e \in Stderrs }

StartFailures == {Missing, ExecError}

OpenerStdouts ==
    { <<>>, <<"0">>,
        <<"1", "2", "3", "4", "\n">>,
        <<"a", "b", "c">> }

OpenerExits ==
    FailExits \cup
    { Exit(0, Text(out), err) : out \in OpenerStdouts,
                                err \in {<<>>, TimingStderr,
        <<"l", "a", "u", "n", "c", "h", "i", "n", "g", "\n", "t", "o", "t",
        "a", "l", " ", "e", "x", "e", "c", "u", "t", "i", "o", "n", " ", "t",
        "i", "m", "e", ":", " ", "0", ".", "5", " ", "s", "e", "c", "o", "n",
        "d", "s", "\n", "d", "o", "n", "e">>,
                                    TwoTimingLines} }

NotJson ==
    Text(
        <<"o", "o", "p", "s">>
        )

\* Traversal documents for whole operations: without elements, with one,
\* without any key, without "stats", with "stats" that leave fields out, and
\* of shapes the parser does not expect.
TraversalDocs ==
    { doc \in SnapshotDocs : Len(doc.v.elements.v) <= 1 } \cup
    { EmptyDict, EmptyList, JObj([elements |-> None]), JObj([stats |-> None]),
      JObj([elements |-> EmptyList]),
      JObj([elements |-> EmptyList, stats |-> JObj([excluded_count |-> JNum(3)])]),
      JObj([elements |-> JArr(<<JObj([role |-> JStr("AXButton"), x |-> JNum(10)])>>)]) }

TraversalExits ==
    FailExits \cup { Exit(0, JsonText(doc), <<>>) : doc \in TraversalDocs }
    \cup { Exit(0, NotJson, <<>>), Exit(0, Text(<<"1", "2">>), <<>>) }

InputExits == FailExits \cup { Exit(0, Text(<<>>), <<>>) }

IsoDate ==
        <<"2", "0", "2", "4", "-", "0", "1", "-", "1", "5", "T", "1", "0", ":",
        "3", "0", ":", "0", "0", "Z">>

NotADate ==
        <<"y", "e", "s", "t", "e", "r", "d", "a", "y">>

SearchDocs ==
    { EmptyDict, EmptyList,
      JObj([files |-> JArr(<<JObj([path |-> JStr("/tmp/a.txt"),
                                   name |-> JStr("a.txt"),
                                   creationDate |-> PyStr(IsoDate)])>>),
            totalCount |-> JNum(1)]),
      JObj([files |-> JArr(<<JObj([name |-> JStr("b.txt"),
                                   modificationDate |-> PyStr(NotADate)])>>)]),
      JObj([files |-> JArr(<<JObj([name |-> JStr("c.txt"),
                                   creationDate |-> JNum(1700000000)])>>)]) }

SearchExits ==
    FailExits \cup { Exit(0, JsonText(doc), <<>>) : doc \in SearchDocs }
    \cup { Exit(0, NotJson, <<>>) }

OutputStdouts ==
    { <<>>,
        <<"0", ".", "5", "\n">>,
        <<"l", "o", "u", "d">>,
        <<"n", "a", "n">> }

OutputExits ==
    FailExits \cup
    { Exit(0, Text(out), err) : out \in OutputStdouts,
                                err \in {<<>>,
        <<"S", "u", "c", "c", "e", "s", "s", ":", " ", "v", "o", "l", "u", "m",
        "e", " ", "s", "e", "t", " ", "t", "o", " ", "0", ".", "5">>,
                                    TwoSuccessLines} }

\* The outcomes perform_action's stages are run against: one of each class.
StageOpenerExits ==
    { Exit(0, Text(
        <<"1", "2", "3", "4", "\n">>
        ), TimingStderr),
      Exit(0, Text(<<"0">>), <<>>),
      Exit(0, Text(
        <<"a", "b", "c">>
        ), <<>>),
      Exit(1, Text(<<>>),
        <<"E", "r", "r", "o", "r", ":", " ", "A", "p", "p", "l", "i", "c", "a",
        "t", "i", "o", "n", " ", "n", "o", "t", " ", "f", "o", "u", "n", "d">>
        ),
      Exit(1, Text(<<>>),
        <<"b", "o", "o", "m">>
        ) }

StageTraversalExits ==
    { Exit(0, JsonText(SnapshotDoc(es)), <<>>) :
        es \in {<<>>, <<JObj([role |-> JStr("AXStaticText"), text |-> JStr("Hello")])>>} }
    \cup { Exit(0, NotJson, <<>>),
           Exit(1, Text(<<>>),
        <<"A", "c", "c", "e", "s", "s", "i", "b", "i", "l", "i", "t", "y", " ",
        "p", "e", "r", "m", "i", "s", "s", "i", "o", "n", " ", "d", "e", "n",
        "i", "e", "d">>
            ),
           Exit(1, Text(<<>>),
        <<"b", "o", "o", "m">>
            ) }

StageInputExits ==
    { Exit(0, Text(<<>>), <<>>),
      Exit(1, Text(<<>>),
        <<"b", "o", "o", "m">>
        ) }

PrimaryActions ==
    { [kind |-> "Open", identifier |-> Calculator], [kind |-> "TraverseOnly"] }
    \cup { [kind |-> "Input", action |-> [kind |-> k]] : k \in InputKinds }

CallerOptions ==
    { ActionOptions(tb, ta, sd, vis, anim, DefaultAnimationDuration, pid, delay) :
        tb \in BOOLEAN, ta \in BOOLEAN, sd \in BOOLEAN, vis \in BOOLEAN,
        anim \in BOOLEAN, pid \in {None, JNum(CallerPid)},
        delay \in {0, DefaultDelayAfterAction} }

\* The single-tool operations of the public interface.
DirectOps ==
    {"open_application", "traverse_accessibility_tree", "highlight_elements",
     "input", "visual_input", "search_files", "output_controller"}

ToolOf(kind) ==
    CASE kind = "open_application" -> AppOpenerTool
      [] kind = "traverse_accessibility_tree" -> TraversalTool
      [] kind = "highlight_elements" -> HighlightTraversalTool
      [] kind = "input" -> InputControllerTool
      [] kind = "visual_input" -> VisualInputTool
      [] kind = "search_files" -> FileSearchTool
      [] kind = "output_controller" -> OutputControllerTool

ExitsOf(kind) ==
    CASE kind = "open_application" -> OpenerExits
      [] kind \in {"traverse_accessibility_tree", "highlight_elements"} -> TraversalExits
      [] kind \in {"input", "visual_input"} -> InputExits
      [] kind = "search_files" -> SearchExits
      [] kind = "output_controller" -> OutputExits

\* The operation of a direct call applied to what its tool did.
ApplyOp(self, c, o) ==
    CASE c.kind = "open_application" -> open_application(self, c.identifier, o)
      [] c.kind = "traverse_accessibility_tree" -> traverse_accessibility_tree(self, c.pid, o)
      [] c.kind = "highlight_elements" -> highlight_elements(self, c.pid, o)
      [] c.kind = "input" -> run_input_action(self, o)
      [] c.kind = "visual_input" -> run_visual_input_action(self, o)
      [] c.kind = "search_files" -> search_files(self, o)
      [] c.kind = "output_controller" -> run_output_controller_action(self, o)

DirectCalls ==
    { [kind |-> "open_application", identifier |-> Calculator],
      [kind |-> "traverse_accessibility_tree", pid |-> CallerPid],
      [kind |-> "highlight_elements", pid |-> CallerPid],
      [kind |-> "search_files"], [kind |-> "output_controller"] }
    \cup { [kind |-> "input", verb |-> InputVerb(k)] : k \in InputKinds }
    \cup { [kind |-> "visual_input", verb |-> InputVerb(k)] : k \in VisualKinds }

(***************************************************************************)
(* SpecDiff: the differ applied to every pair of parsed snapshots.         *)
(***************************************************************************)
\* The call variables while only the differ is exercised, and the reverse.
IdleCall ==
    /\ sdk = None /\ pc = "idle" /\ call = None /\ options = None
    /\ result = None /\ ret = None /\ log = <<>>

IdleDiff ==
    /\ before = None /\ after = None /\ diff = None /\ d_pc = "idle"

IdleConc ==
    /\ c_pc = None /\ c_call = None /\ c_proc = None /\ c_ret = None

IdleFind == running = None /\ resolved = None

IdleCli ==
    /\ argv = None /\ m_pc = "idle" /\ printed = <<>> /\ status = None

InitDiff ==
    /\ IdleCall
    /\ IdleConc
    /\ IdleCli
    /\ IdleFind
    /\ before \in Snapshots
    /\ after \in Snapshots
    /\ diff = None
    /\ d_pc = "ready"

\* perform_action's call of the differ (core.py:705): one evaluation.
GenerateDiff ==
    /\ d_pc = "ready"
    /\ diff' = generate_traversal_diff(before, after)
    /\ d_pc' = "done"
    /\ UNCHANGED <<before, after>>
    /\ UNCHANGED vars_call
    /\ UNCHANGED vars_conc
    /\ UNCHANGED vars_cli
    /\ UNCHANGED vars_find

NextDiff == GenerateDiff

SpecDiff == InitDiff /\ [][NextDiff]_vars

(***************************************************************************)
(* Spec: one call on a MacosSDK instance, perform_action or a single-tool  *)
(* operation.  A tool invocation takes two steps, the start (the tool is   *)
(* missing, cannot be executed, or is spawned) and the exit of the spawned *)
(* process; log records both.                                              *)
(***************************************************************************)
\* MacosSDK.__init__: the instance holds the build directory and nothing else.
MacosSDK(swift_build_path) == [swift_build_path |-> swift_build_path]

Event(ev, stage, tool, args, outcome) ==
    [ev |-> ev, stage |-> stage, tool |-> tool, args |-> args, outcome |-> outcome]

\* How often stage has spawned its tool so far.
Spawns(stage) ==
    Cardinality({i \in 1..Len(log) : log[i].ev = "spawn" /\ log[i].stage = stage})

\* A runner that starts the tool a second time after a non-zero exit.
run_tool_retry_once(o, spawns) == o.returncode /= 0 /\ spawns < 2

\* _run_tool runs subprocess.run once and then returns or raises: it never
\* starts the tool again, whatever the exit was.
run_tool_again(o, spawns) == FALSE

Init ==
    /\ sdk = MacosSDK(BuildPath)
    /\ pc = "idle"
    /\ call = None
    /\ options = None
    /\ result = None
    /\ ret = None
    /\ log = <<>>
    /\ IdleDiff
    /\ IdleConc
    /\ IdleCli
    /\ IdleFind

\* perform_action, up to "result = ActionResult()" (core.py:651-660).
PerformAction ==
    /\ pc = "idle"
    /\ \E a \in PrimaryActions, opts \in CallerOptions \cup {None} :
        /\ call' = [kind |-> "perform_action", action |-> a, options |-> opts]
        /\ options' = validated(IF opts = None THEN DefaultActionOptions ELSE opts)
    /\ result' = ActionResult
    /\ pc' = "open"
    /\ UNCHANGED <<sdk, ret, log>>
    /\ UNCHANGED vars_rest

\* The tool of a stage is spawned: the call waits for its exit.
SpawnTool(stage, tool, args, wait) ==
    /\ log' = Append(log, Event("spawn", stage, tool, args, None))
    /\ pc' = wait
    /\ UNCHANGED <<result, ret>>

\* The tool of a stage fails before any process exists (outcome o).
FailToStart(stage, tool, args, o) ==
    log' = Append(log, Event("nospawn", stage, tool, args, o))

\* The wait for the spawned tool of a stage is given up after a timeout.
ToolAbandoned(stage, tool, args, o) ==
    log' = Append(log, Event("timeout", stage, tool, args, o))

\* The spawned tool of a stage exits with outcome o.
ToolExits(stage, tool, args, o) ==
    log' = Append(log, Event("exit", stage, tool, args, o))

\* The spawned tool of a stage exits with outcome o and is started again.
RespawnTool(stage, tool, args, o) ==
    /\ log' = log \o <<Event("exit", stage, tool, args, o),
                       Event("spawn", stage, tool, args, None)>>
    /\ UNCHANGED <<pc, result, ret>>

\* An "open" stage that records the failure and carries on.
FinishOpen_carry_on(o) ==
    LET r == open_application(sdk, call.action.identifier, o)
    IN  /\ result' = IF r.ok
                     THEN [result EXCEPT !.open_result = r.val,
                                         !.traversal_pid = JNum(r.val.pid)]
                     ELSE [result EXCEPT !.primary_action_error = PyStr(r.exc.msg)]
        /\ pc' = "before"
        /\ UNCHANGED ret

\* An "open" stage that keeps the pid and not the opener's result.
FinishOpen_pid_only(o) ==
    LET r == open_application(sdk, call.action.identifier, o)
    IN  IF r.ok
        THEN /\ result' = [result EXCEPT !.traversal_pid = JNum(r.val.pid)]
             /\ pc' = "before"
             /\ UNCHANGED ret
        ELSE /\ result' = [result EXCEPT !.primary_action_error = PyStr(r.exc.msg)]
             /\ ret' = Ret(result')
             /\ pc' = "done"

\* The "open" stage (core.py:663-670).
FinishOpen(o) ==
    LET r == open_application(sdk, call.action.identifier, o)
    IN  IF r.ok
        THEN /\ result' = [result EXCEPT !.open_result = r.val,
                                         !.traversal_pid = JNum(r.val.pid)]
             /\ pc' = "before"
             /\ UNCHANGED ret
        ELSE /\ result' = [result EXCEPT !.primary_action_error = PyStr(r.exc.msg)]
             /\ ret' = Ret(result')
             /\ pc' = "done"

\* The arguments of the opener inside perform_action.
OpenArgs == [identifier |-> call.action.identifier]

OpenSkip ==
    /\ pc = "open"
    /\ call.action.kind /= "Open"
    /\ pc' = "before"
    /\ UNCHANGED <<sdk, call, options, result, ret, log>>
    /\ UNCHANGED vars_rest

OpenStart ==
    /\ pc = "open"
    /\ call.action.kind = "Open"
    /\ \/ SpawnTool("open", AppOpenerTool, OpenArgs, "open_wait")
       \/ \E o \in StartFailures :
            /\ FailToStart("open", AppOpenerTool, OpenArgs, o)
            /\ FinishOpen(o)
    /\ UNCHANGED <<sdk, call, options>>
    /\ UNCHANGED vars_rest

OpenExit ==
    /\ pc = "open_wait"
    /\ \E o \in StageOpenerExits :
        IF run_tool_again(o, Spawns("open"))
        THEN RespawnTool("open", AppOpenerTool, OpenArgs, o)
        ELSE /\ ToolExits("open", AppOpenerTool, OpenArgs, o)
             /\ FinishOpen(o)
    /\ UNCHANGED <<sdk, call, options>>
    /\ UNCHANGED vars_rest

\* The arguments of a traversal inside perform_action.
TraversalArgs ==
    [pid |-> result.traversal_pid.v,
     visible_only |-> options.only_visible_elements]

\* The "traversal before" stage (core.py:673-680).
FinishBefore(o) ==
    LET r == traverse_accessibility_tree(sdk, result.traversal_pid.v, o)
    IN  /\ result' = IF r.ok
                     THEN [result EXCEPT !.traversal_before = r.val]
                     ELSE [result EXCEPT !.traversal_before_error = PyStr(r.exc.msg)]
        /\ pc' = "input"
        /\ UNCHANGED ret

BeforeSkip ==
    /\ pc = "before"
    /\ ~(options.traverse_before /\ Truthy(result.traversal_pid))
    /\ pc' = "input"
    /\ UNCHANGED <<sdk, call, options, result, ret, log>>
    /\ UNCHANGED vars_rest

BeforeStart ==
    /\ pc = "before"
    /\ options.traverse_before /\ Truthy(result.traversal_pid)
    /\ \/ SpawnTool("before", TraversalTool, TraversalArgs, "before_wait")
       \/ \E o \in StartFailures :
            /\ FailToStart("before", TraversalTool, TraversalArgs, o)
            /\ FinishBefore(o)
    /\ UNCHANGED <<sdk, call, options>>
    /\ UNCHANGED vars_rest

BeforeExit ==
    /\ pc = "before_wait"
    /\ \E o \in StageTraversalExits :
        IF run_tool_again(o, Spawns("before"))
        THEN RespawnTool("before", TraversalTool, TraversalArgs, o)
        ELSE /\ ToolExits("before", TraversalTool, TraversalArgs, o)
             /\ FinishBefore(o)
    /\ UNCHANGED <<sdk, call, options>>
    /\ UNCHANGED vars_rest

\* The arguments of the input tool inside perform_action.
InputArgs ==
    [verb |-> InputVerb(call.action.action.kind),
     duration |-> IF InputToolFor(call.action.action, options) = VisualInputTool
                  THEN JNum(options.animation_duration) ELSE None]

\* The input stage (core.py:683-687).
FinishInput(o) ==
    LET r == execute_input_action(sdk, call.action.action, options, o)
    IN  /\ result' = IF r.ok THEN result
                     ELSE [result EXCEPT !.primary_action_error = PyStr(r.exc.msg)]
        /\ pc' = "delay"
        /\ UNCHANGED ret

InputSkip ==
    /\ pc = "input"
    /\ call.action.kind /= "Input"
    /\ pc' = "delay"
    /\ UNCHANGED <<sdk, call, options, result, ret, log>>
    /\ UNCHANGED vars_rest

InputStart ==
    /\ pc = "input"
    /\ call.action.kind = "Input"
    /\ \/ SpawnTool("input", InputToolFor(call.action.action, options), InputArgs, "input_wait")
       \/ \E o \in StartFailures :
            /\ FailToStart("input", InputToolFor(call.action.action, options), InputArgs, o)
            /\ FinishInput(o)
    /\ UNCHANGED <<sdk, call, options>>
    /\ UNCHANGED vars_rest

InputExit ==
    /\ pc = "input_wait"
    /\ \E o \in StageInputExits :
        IF run_tool_again(o, Spawns("input"))
        THEN RespawnTool("input", InputToolFor(call.action.action, options), InputArgs, o)
        ELSE /\ ToolExits("input", InputToolFor(call.action.action, options), InputArgs, o)
             /\ FinishInput(o)
    /\ UNCHANGED <<sdk, call, options>>
    /\ UNCHANGED vars_rest

\* A delay stage that does not wait.
DelayNotAwaited ==
    /\ pc = "delay"
    /\ pc' = "after"
    /\ UNCHANGED <<sdk, call, options, result, ret, log>>
    /\ UNCHANGED vars_rest

\* The delay after the action (core.py:690-691).
Delay ==
    /\ pc = "delay"
    /\ log' = IF options.delay_after_action > 0
              THEN Append(log, Event("sleep", "delay", <<>>,
                                     [seconds |-> options.delay_after_action], None))
              ELSE log
    /\ pc' = "after"
    /\ UNCHANGED <<sdk, call, options, result, ret>>
    /\ UNCHANGED vars_rest

\* The "traversal after" stage (core.py:694-701).
FinishAfter(o) ==
    LET r == traverse_accessibility_tree(sdk, result.traversal_pid.v, o)
    IN  /\ result' = IF r.ok
                     THEN [result EXCEPT !.traversal_after = r.val]
                     ELSE [result EXCEPT !.traversal_after_error = PyStr(r.exc.msg)]
        /\ pc' = "diff"
        /\ UNCHANGED ret

AfterSkip ==
    /\ pc = "after"
    /\ ~(options.traverse_after /\ Truthy(result.traversal_pid))
    /\ pc' = "diff"
    /\ UNCHANGED <<sdk, call, options, result, ret, log>>
    /\ UNCHANGED vars_rest

AfterStart ==
    /\ pc = "after"
    /\ options.traverse_after /\ Truthy(result.traversal_pid)
    /\ \/ SpawnTool("after", TraversalTool, TraversalArgs, "after_wait")
       \/ \E o \in StartFailures :
            /\ FailToStart("after", TraversalTool, TraversalArgs, o)
            /\ FinishAfter(o)
    /\ UNCHANGED <<sdk, call, options>>
    /\ UNCHANGED vars_rest

AfterExit ==
    /\ pc = "after_wait"
    /\ \E o \in StageTraversalExits :
        IF run_tool_again(o, Spawns("after"))
        THEN RespawnTool("after", TraversalTool, TraversalArgs, o)
        ELSE /\ ToolExits("after", TraversalTool, TraversalArgs, o)
             /\ FinishAfter(o)
    /\ UNCHANGED <<sdk, call, options>>
    /\ UNCHANGED vars_rest

\* A last stage that makes the diff whenever both snapshots are there,
\* asked for or not.
DiffStage_unasked ==
    /\ pc = "diff"
    /\ IF /\ result.traversal_before /= None
          /\ result.traversal_after /= None
       THEN LET d == generate_traversal_diff(result.traversal_before,
                                             result.traversal_after)
            IN  IF d.ok
                THEN /\ result' = [result EXCEPT !.traversal_diff = d.val]
                     /\ ret' = Ret(result')
                ELSE /\ ret' = d
                     /\ UNCHANGED result
       ELSE /\ ret' = Ret(result)
            /\ UNCHANGED result
    /\ pc' = "done"
    /\ UNCHANGED <<sdk, call, options, log>>
    /\ UNCHANGED vars_rest

\* The diff and the return (core.py:704-710).  The differ is called outside
\* any try block: what it raises leaves perform_action.
DiffStage ==
    /\ pc = "diff"
    /\ IF /\ options.show_diff
          /\ result.traversal_before /= None
          /\ result.traversal_after /= None
       THEN LET d == generate_traversal_diff(result.traversal_before,
                                             result.traversal_after)
            IN  IF d.ok
                THEN /\ result' = [result EXCEPT !.traversal_diff = d.val]
                     /\ ret' = Ret(result')
                ELSE /\ ret' = d
                     /\ UNCHANGED result
       ELSE /\ ret' = Ret(result)
            /\ UNCHANGED result
    /\ pc' = "done"
    /\ UNCHANGED <<sdk, call, options, log>>
    /\ UNCHANGED vars_rest

\* A single-tool operation called directly.
FinishDirect(o) ==
    /\ ret' = ApplyOp(sdk, call, o)
    /\ pc' = "done"
    /\ UNCHANGED result

DirectCall ==
    /\ pc = "idle"
    /\ call' \in DirectCalls
    /\ pc' = "op"
    /\ UNCHANGED <<sdk, options, result, ret, log>>
    /\ UNCHANGED vars_rest

DirectStart ==
    /\ pc = "op"
    /\ \/ SpawnTool("op", ToolOf(call.kind), call, "op_wait")
       \/ \E o \in StartFailures :
            /\ FailToStart("op", ToolOf(call.kind), call, o)
            /\ FinishDirect(o)
    /\ UNCHANGED <<sdk, call, options>>
    /\ UNCHANGED vars_rest

DirectExit ==
    /\ pc = "op_wait"
    /\ \E o \in ExitsOf(call.kind) :
        IF run_tool_again(o, Spawns("op"))
        THEN RespawnTool("op", ToolOf(call.kind), call, o)
        ELSE /\ ToolExits("op", ToolOf(call.kind), call, o)
             /\ FinishDirect(o)
    /\ UNCHANGED <<sdk, call, options>>
    /\ UNCHANGED vars_rest

Next ==
    \/ PerformAction
    \/ OpenSkip \/ OpenStart \/ OpenExit
    \/ BeforeSkip \/ BeforeStart \/ BeforeExit
    \/ InputSkip \/ InputStart \/ InputExit
    \/ Delay
    \/ AfterSkip \/ AfterStart \/ AfterExit
    \/ DiffStage
    \/ DirectCall \/ DirectStart \/ DirectExit

Spec == Init /\ [][Next]_vars

(***************************************************************************)
(* SpecLive: Spec with the scheduling the code relies on: the event loop   *)
(* runs a coroutine that is ready (WrapperStep).  Nothing is assumed of    *)
(* the spawned tools: whether they exit is up to them.                     *)
(***************************************************************************)
\* The steps the wrapper takes by itself.
WrapperStep ==
    \/ PerformAction
    \/ OpenSkip \/ OpenStart
    \/ BeforeSkip \/ BeforeStart
    \/ InputSkip \/ InputStart
    \/ Delay
    \/ AfterSkip \/ AfterStart
    \/ DiffStage
    \/ DirectCall \/ DirectStart

SpecLive == Spec /\ WF_vars(WrapperStep)

(***************************************************************************)
(* SpecConc: NumCalls single-tool operations in flight on one instance.    *)
(* _run_tool_async hands _run_tool to the executor (core.py:118-121), so   *)
(* the calls' steps interleave freely.  A call starts its own process,     *)
(* that process exits, and the call turns what it captured into its        *)
(* result.                                                                 *)
(***************************************************************************)
Calls == 1..NumCalls

ConcCalls ==
    { [kind |-> "open_application", identifier |-> Calculator],
      [kind |-> "traverse_accessibility_tree", pid |-> CallerPid],
      [kind |-> "input", verb |-> InputVerb("Click")] }

ConcExits(kind) ==
    CASE kind = "open_application" -> StageOpenerExits
      [] kind = "traverse_accessibility_tree" -> StageTraversalExits
      [] kind = "input" -> StageInputExits

\* A runner that keeps the captured process in one slot of the instance:
\* a call reads whichever process filled the slot.
shared_process(i, procs) ==
    procs[CHOOSE j \in DOMAIN procs : procs[j] /= None]

\* The process whose captured output _run_tool hands back to call i:
\* "result" is a local of _run_tool (core.py:103), so it is i's own.
captured_process(i, procs) == procs[i]

InitConc ==
    /\ sdk = MacosSDK(BuildPath)
    /\ pc = "idle" /\ call = None /\ options = None
    /\ result = None /\ ret = None /\ log = <<>>
    /\ IdleDiff
    /\ IdleCli
    /\ IdleFind
    /\ c_pc = [i \in Calls |-> "idle"]
    /\ c_call = [i \in Calls |-> None]
    /\ c_proc = [i \in Calls |-> None]
    /\ c_ret = [i \in Calls |-> None]

ConcCall(i) ==
    /\ c_pc[i] = "idle"
    /\ \E c \in ConcCalls : c_call' = [c_call EXCEPT ![i] = c]
    /\ c_pc' = [c_pc EXCEPT ![i] = "op"]
    /\ UNCHANGED <<c_proc, c_ret>>
    /\ UNCHANGED vars_call
    /\ UNCHANGED vars_diff
    /\ UNCHANGED vars_cli
    /\ UNCHANGED vars_find

\* The start of i's tool: spawned, or failed before any process exists.
ConcStart(i) ==
    /\ c_pc[i] = "op"
    /\ \/ /\ c_pc' = [c_pc EXCEPT ![i] = "op_wait"]
          /\ UNCHANGED c_proc
       \/ \E o \in StartFailures :
            /\ c_proc' = [c_proc EXCEPT ![i] = o]
            /\ c_pc' = [c_pc EXCEPT ![i] = "exited"]
    /\ UNCHANGED <<c_call, c_ret>>
    /\ UNCHANGED vars_call
    /\ UNCHANGED vars_diff
    /\ UNCHANGED vars_cli
    /\ UNCHANGED vars_find

\* i's process exits.
ConcExit(i) ==
    /\ c_pc[i] = "op_wait"
    /\ \E o \in ConcExits(c_call[i].kind) : c_proc' = [c_proc EXCEPT ![i] = o]
    /\ c_pc' = [c_pc EXCEPT ![i] = "exited"]
    /\ UNCHANGED <<c_call, c_ret>>
    /\ UNCHANGED vars_call
    /\ UNCHANGED vars_diff
    /\ UNCHANGED vars_cli
    /\ UNCHANGED vars_find

\* i's operation turns the captured process into its result or failure.
ConcReturn(i) ==
    /\ c_pc[i] = "exited"
    /\ c_ret' = [c_ret EXCEPT ![i] =
                    ApplyOp(sdk, c_call[i], captured_process(i, c_proc))]
    /\ c_pc' = [c_pc EXCEPT ![i] = "done"]
    /\ UNCHANGED <<c_call, c_proc>>
    /\ UNCHANGED vars_call
    /\ UNCHANGED vars_diff
    /\ UNCHANGED vars_cli
    /\ UNCHANGED vars_find

NextConc ==
    \E i \in Calls : ConcCall(i) \/ ConcStart(i) \/ ConcExit(i) \/ ConcReturn(i)

SpecConc == InitConc /\ [][NextConc]_vars

(***************************************************************************)
(* SpecCli: one run of the command-line program (cli.py).  The operation   *)
(* a handler awaits is taken in one step, with every outcome of the        *)
(* processes it runs; log records those processes, ret what the operation  *)
(* returned or raised.                                                     *)
(***************************************************************************)
OutFile ==
    <<"o", "u", "t", ".", "j", "s", "o", "n">>

DateOnly ==
    <<"2", "0", "2", "4", "-", "0", "1", "-", "1", "5">>

\* What running osascript can do: it is missing, it fails, it prints nothing,
\* it prints two apps, it prints an app with a comma in its name and an
\* entry whose PID is no number.
OsaExits ==
    { Missing,
      Exit(1, Text(<<>>),
        <<"e", "x", "e", "c", "u", "t", "i", "o", "n", " ", "e", "r", "r",
        "o", "r">>
        ),
      Exit(0, Text(<<>>), <<>>),
      Exit(0, Text(
        <<"F", "i", "n", "d", "e", "r", ",", "1", "0", "1", ",", "c", "o",
        "m", ".", "a", "p", "p", "l", "e", ".", "f", "i", "n", "d", "e", "r",
        ",", " ", "C", "a", "l", "c", "u", "l", "a", "t", "o", "r", ",", "2",
        "0", "2", ",", "c", "o", "m", ".", "a", "p", "p", "l", "e", ".", "c",
        "a", "l", "c", "u", "l", "a", "t", "o", "r", "\n">>
        ), <<>>),
      Exit(0, Text(
        <<"A", ",", "B", ",", "7", ",", "c", "o", "m", ".", "a", "b", ",",
        " ", "C", "a", "l", "c", "u", "l", "a", "t", "o", "r", ",", "x", ",",
        "c", "o", "m", ".", "b", "a", "d">>
        ), <<>>) }

\* What running ps can do: it is missing, it fails, it prints a header, an
\* app and a daemon.
PsExits ==
    { Missing,
      Exit(1, Text(<<>>), <<>>),
      Exit(0, Text(
        <<"P", "I", "D", " ", "C", "O", "M", "M", "\n", " ", "2", "0", "2",
        " ", "/", "A", "p", "p", "l", "i", "c", "a", "t", "i", "o", "n", "s",
        "/", "C", "a", "l", "c", "u", "l", "a", "t", "o", "r", ".", "a", "p",
        "p", "/", "C", "o", "n", "t", "e", "n", "t", "s", "/", "M", "a", "c",
        "O", "S", "/", "C", "a", "l", "c", "u", "l", "a", "t", "o", "r",
        "\n", " ", "1", " ", "/", "s", "b", "i", "n", "/", "l", "a", "u",
        "n", "c", "h", "d">>
        ), <<>>) }

\* The command lines of the model, as argparse hands them over; command is
\* "" when none was given, action is "" when volume or brightness got none.
CliArgs ==
    { [command |-> ""] }
    \cup { [command |-> "list", output |-> out] : out \in {None, PyStr(OutFile)} }
    \cup { [command |-> "open", identifier |-> Calculator] }
    \cup { [command |-> "traverse", identifier |-> id, output |-> out] :
            id \in {<<"4", "2">>, Calculator}, out \in {None, PyStr(OutFile)} }
    \cup { [command |-> "click", visual |-> v] : v \in BOOLEAN }
    \cup { [command |-> "type"], [command |-> "key"] }
    \cup { [command |-> "search", start_date |-> d, output |-> out] :
            d \in {None, PyStr(DateOnly), PyStr(NotADate)},
            out \in {None, PyStr(OutFile)} }
    \cup { [command |-> c, action |-> a] :
            c \in {"volume", "brightness"}, a \in {"set", "get", ""} }

\* What open(output_file, 'w') and f.write do.
FileWrites == {"written", "oserror"}

\* One line written to a stream of the process.
Printed(stream, text) == [stream |-> stream, text |-> text]

\* subprocess.run of tool has ended with o.
Ran(tool, o) ==
    Event(IF o.start = "spawned" THEN "exit" ELSE "nospawn", "cli", tool, argv, o)

InitCli ==
    /\ sdk = None
    /\ pc = "idle" /\ call = None /\ options = None
    /\ result = None /\ ret = None /\ log = <<>>
    /\ IdleDiff
    /\ IdleConc
    /\ argv = None
    /\ m_pc = "start"
    /\ printed = <<>>
    /\ status = None
    /\ IdleFind

vars_cli_rest == <<pc, options, result, before, after, diff, d_pc,
                   c_pc, c_call, c_proc, c_ret, running, resolved>>

\* parser.parse_args() accepts the command line.
ParseArgs ==
    /\ m_pc = "start"
    /\ argv' \in CliArgs
    /\ m_pc' = "parsed"
    /\ UNCHANGED <<sdk, call, ret, log, printed, status>>
    /\ UNCHANGED vars_cli_rest

\* parser.parse_args() rejects the command line: argparse prints the usage
\* to stderr and exits with status 2.
UsageError ==
    /\ m_pc = "start"
    /\ printed' = Append(printed, Printed("stderr",
                            <<"u", "s", "a", "g", "e", ":", " ">>
        ))
    /\ status' = JNum(2)
    /\ m_pc' = "exited"
    /\ UNCHANGED <<sdk, call, ret, log, argv>>
    /\ UNCHANGED vars_cli_rest

\* main: "if not args.command: parser.print_help(); return".
NoCommand ==
    /\ m_pc = "parsed"
    /\ argv.command = ""
    /\ printed' = Append(printed, Printed("stdout",
                            <<"u", "s", "a", "g", "e", ":", " ">>
        ))
    /\ status' = JNum(0)
    /\ m_pc' = "exited"
    /\ UNCHANGED <<sdk, call, ret, log, argv>>
    /\ UNCHANGED vars_cli_rest

\* main: "handler = CLIHandler()", outside main's try.  MacosSDK() finds the
\* build directory, or raises MacosUseSDKError, which leaves main: the
\* interpreter prints the traceback to stderr and exits with status 1.
NewHandler ==
    /\ m_pc = "parsed"
    /\ argv.command /= ""
    /\ \/ /\ sdk' = MacosSDK(BuildPath)
          /\ m_pc' = "dispatch"
          /\ UNCHANGED <<printed, status>>
       \/ /\ printed' = Append(printed, Printed("stderr",
                            <<"C", "o", "u", "l", "d", " ", "n", "o", "t", " ", "f", "i", "n",
                            "d", " ", "S", "w", "i", "f", "t", " ", "b", "u", "i", "l", "d", " ",
                            "d", "i", "r", "e", "c", "t", "o", "r", "y", ".">>
            ))
          /\ status' = JNum(1)
          /\ m_pc' = "exited"
          /\ UNCHANGED sdk
    /\ UNCHANGED <<call, ret, log, argv>>
    /\ UNCHANGED vars_cli_rest

\* The end of every handler.  op is what the awaited operation returned or
\* raised and body what the whole try block did.  A try block that ran
\* through has printed line (its text is kept up to the first value), main
\* returns and the process exits with status 0; "except Exception as e"
\* prints prefix and str(e) to stderr and calls sys.exit(1).
HandlerEnds(op, body, line, prefix) ==
    /\ ret' = op
    /\ IF body.ok
       THEN /\ printed' = Append(printed, Printed("stdout", line))
            /\ status' = JNum(0)
       ELSE /\ printed' = Append(printed, Printed("stderr", prefix \o body.exc.msg))
            /\ status' = JNum(1)
    /\ m_pc' = "exited"
    /\ UNCHANGED <<sdk, argv>>
    /\ UNCHANGED vars_cli_rest

\* "if output_file: with open(output_file, 'w') ... else: print(json_output)"
\* after an operation that returned.
WriteOutput(op, output, w) ==
    IF op.ok /\ output /= None /\ w = "oserror"
    THEN Raise("PermissionError",
                            <<"[", "E", "r", "r", "n", "o", " ", "1", "3", "]", " ", "P", "e",
                            "r", "m", "i", "s", "s", "i", "o", "n", " ", "d", "e", "n", "i", "e",
                            "d">>
        )
    ELSE op

\* print(f"...{result.value:.2f}") after an operation that returned: a value
\* of None has no such format.
FormatValue(op) ==
    IF op.ok /\ op.val.value = None
    THEN Raise("TypeError",
                            <<"u", "n", "s", "u", "p", "p", "o", "r", "t", "e", "d", " ", "f",
                            "o", "r", "m", "a", "t", " ", "s", "t", "r", "i", "n", "g", " ", "p",
                            "a", "s", "s", "e", "d", " ", "t", "o", " ", "N", "o", "n", "e", "T",
                            "y", "p", "e", ".", "_", "_", "f", "o", "r", "m", "a", "t", "_", "_">>
        )
    ELSE op

Dispatch(command) == m_pc = "dispatch" /\ argv.command = command

\* CLIHandler.list_apps
ListApps ==
    /\ Dispatch("list")
    /\ \E osa \in OsaExits, ps \in PsExits, w \in FileWrites :
        LET op == Ret(list_running_applications(osa, ps))
        IN  /\ call' = [kind |-> "list_running_applications"]
            /\ log' = IF osa.start = "spawned"
                      THEN <<Ran("osascript", osa)>>
                      ELSE <<Ran("osascript", osa), Ran("ps", ps)>>
            /\ HandlerEnds(op, WriteOutput(op, argv.output, w),
                            <<"r", "u", "n", "n", "i", "n", "g", "_", "a", "p", "p", "l",
                            "i", "c", "a", "t", "i", "o", "n", "s">>,
                            <<"E", "r", "r", "o", "r", " ", "l", "i", "s", "t", "i", "n",
                            "g", " ", "a", "p", "p", "l", "i", "c", "a", "t", "i", "o",
                            "n", "s", ":", " ">>
                )

\* CLIHandler.open_app
OpenApp ==
    /\ Dispatch("open")
    /\ \E o \in StartFailures \cup OpenerExits :
        LET op == open_application(sdk, argv.identifier, o)
        IN  /\ call' = [kind |-> "open_application", identifier |-> argv.identifier]
            /\ log' = <<Ran(AppOpenerTool, o)>>
            /\ HandlerEnds(op, op,
                            <<"A", "p", "p", "l", "i", "c", "a", "t", "i", "o", "n", " ",
                            "o", "p", "e", "n", "e", "d", " ", "w", "i", "t", "h", " ",
                            "P", "I", "D", ":", " ">>,
                            <<"E", "r", "r", "o", "r", " ", "o", "p", "e", "n", "i", "n",
                            "g", " ", "a", "p", "p", "l", "i", "c", "a", "t", "i", "o",
                            "n", ":", " ">>
                )

\* CLIHandler.traverse with a string of digits: it is the pid.
TraversePid ==
    /\ Dispatch("traverse")
    /\ \A i \in 1..Len(argv.identifier) : IsDigit(argv.identifier[i])
    /\ \E o \in StartFailures \cup TraversalExits, w \in FileWrites :
       \E pid \in {ParseInt(argv.identifier).val} :
       \E op \in {traverse_accessibility_tree(sdk, pid, o)} :
            /\ call' = [kind |-> "traverse_accessibility_tree", pid |-> pid]
            /\ log' = <<Ran(TraversalTool, o)>>
            /\ HandlerEnds(op, WriteOutput(op, argv.output, w),
                            <<"a", "p", "p", "_", "n", "a", "m", "e">>,
                            <<"E", "r", "r", "o", "r", " ", "t", "r", "a", "v", "e", "r", "s",
                            "i", "n", "g", " ", "a", "c", "c", "e", "s", "s", "i", "b", "i",
                            "l", "i", "t", "y", " ", "t", "r", "e", "e", ":", " ">>
                        )

\* CLIHandler.traverse with any other string: traverse_accessibility_tree
\* resolves it through the list of running applications and runs the
\* traversal tool only when it found a pid.
TraverseIdentifier ==
    /\ Dispatch("traverse")
    /\ \E i \in 1..Len(argv.identifier) : ~IsDigit(argv.identifier[i])
    /\ \E o \in StartFailures \cup TraversalExits, w \in FileWrites :
       \E osa \in OsaExits, ps \in PsExits :
       \E pid \in {find_running_app_pid(argv.identifier, osa, ps)} :
       \E op \in {traverse_identifier(sdk, argv.identifier, pid, o)} :
            /\ call' = [kind |-> "traverse_accessibility_tree",
                        identifier |-> argv.identifier]
            /\ log' = (IF osa.start = "spawned"
                       THEN <<Ran("osascript", osa)>>
                       ELSE <<Ran("osascript", osa), Ran("ps", ps)>>)
                      \o (IF pid = None THEN <<>> ELSE <<Ran(TraversalTool, o)>>)
            /\ HandlerEnds(op, WriteOutput(op, argv.output, w),
                            <<"a", "p", "p", "_", "n", "a", "m", "e">>,
                            <<"E", "r", "r", "o", "r", " ", "t", "r", "a", "v", "e", "r", "s",
                            "i", "n", "g", " ", "a", "c", "c", "e", "s", "s", "i", "b", "i",
                            "l", "i", "t", "y", " ", "t", "r", "e", "e", ":", " ">>
                        )

\* CLIHandler.click
Click ==
    /\ Dispatch("click")
    /\ \E o \in StartFailures \cup InputExits :
        LET op == IF argv.visual THEN run_visual_input_action(sdk, o)
                  ELSE run_input_action(sdk, o)
        IN  /\ call' = [kind |-> IF argv.visual THEN "visual_input" ELSE "input",
                        verb |-> "click"]
            /\ log' = <<Ran(IF argv.visual THEN VisualInputTool
                            ELSE InputControllerTool, o)>>
            /\ HandlerEnds(op, op,
                            <<"C", "l", "i", "c", "k", " ", "a", "t", " ">>,
                            <<"E", "r", "r", "o", "r", " ", "c", "l", "i", "c", "k", "i",
                            "n", "g", ":", " ">>
                )

\* CLIHandler.type_text
TypeText ==
    /\ Dispatch("type")
    /\ \E o \in StartFailures \cup InputExits :
        LET op == run_input_action(sdk, o)
        IN  /\ call' = [kind |-> "input", verb |-> "writetext"]
            /\ log' = <<Ran(InputControllerTool, o)>>
            /\ HandlerEnds(op, op,
                            <<"T", "y", "p", "e", "d", ":", " ">>,
                            <<"E", "r", "r", "o", "r", " ", "t", "y", "p", "i", "n", "g",
                            " ", "t", "e", "x", "t", ":", " ">>
                )

\* CLIHandler.press_key
PressKey ==
    /\ Dispatch("key")
    /\ \E o \in StartFailures \cup InputExits :
        LET op == run_input_action(sdk, o)
        IN  /\ call' = [kind |-> "input", verb |-> "keypress"]
            /\ log' = <<Ran(InputControllerTool, o)>>
            /\ HandlerEnds(op, op,
                            <<"P", "r", "e", "s", "s", "e", "d", " ", "k", "e", "y", ":",
                            " ">>,
                            <<"E", "r", "r", "o", "r", " ", "p", "r", "e", "s", "s", "i",
                            "n", "g", " ", "k", "e", "y", ":", " ">>
                )

\* CLIHandler.search_files: a start date that is no ISO date ends the
\* handler before the search is made.
SearchFiles ==
    /\ Dispatch("search")
    /\ LET start_dt == IF argv.start_date = None THEN Ret(None)
                       ELSE fromisoformat(argv.start_date.v)
       IN  IF ~start_dt.ok
           THEN /\ UNCHANGED <<call, log>>
                /\ HandlerEnds(ret, start_dt, <<>>,
                            <<"E", "r", "r", "o", "r", " ", "s", "e", "a", "r", "c", "h",
                            "i", "n", "g", " ", "f", "i", "l", "e", "s", ":", " ">>
                    )
           ELSE \E o \in StartFailures \cup SearchExits, w \in FileWrites :
                LET op == search_files(sdk, o)
                IN  /\ call' = [kind |-> "search_files"]
                    /\ log' = <<Ran(FileSearchTool, o)>>
                    /\ HandlerEnds(op, WriteOutput(op, argv.output, w),
                            <<"t", "o", "t", "a", "l", "_", "c", "o", "u", "n", "t">>,
                            <<"E", "r", "r", "o", "r", " ", "s", "e", "a", "r", "c", "h",
                            "i", "n", "g", " ", "f", "i", "l", "e", "s", ":", " ">>
                        )

\* The four handlers of the output controller differ in their texts only:
\* the try block awaits the operation and formats result.value.
OutputHandler(o, line, prefix) ==
    \E op \in {run_output_controller_action(sdk, o)} :
        /\ call' = [kind |-> "output_controller"]
        /\ log' = <<Ran(OutputControllerTool, o)>>
        /\ HandlerEnds(op, FormatValue(op), line, prefix)

\* CLIHandler.set_volume
SetVolume ==
    /\ Dispatch("volume")
    /\ argv.action = "set"
    /\ \E o \in StartFailures \cup OutputExits :
        OutputHandler(o,
            <<"V", "o", "l", "u", "m", "e", " ", "s", "e", "t", " ", "t",
            "o", ":", " ">>,
            <<"E", "r", "r", "o", "r", " ", "s", "e", "t", "t", "i", "n",
            "g", " ", "v", "o", "l", "u", "m", "e", ":", " ">>
            )

\* CLIHandler.get_volume
GetVolume ==
    /\ Dispatch("volume")
    /\ argv.action = "get"
    /\ \E o \in StartFailures \cup OutputExits :
        OutputHandler(o,
            <<"C", "u", "r", "r", "e", "n", "t", " ", "v", "o", "l", "u",
            "m", "e", ":", " ">>,
            <<"E", "r", "r", "o", "r", " ", "g", "e", "t", "t", "i", "n",
            "g", " ", "v", "o", "l", "u", "m", "e", ":", " ">>
            )

\* CLIHandler.set_brightness
SetBrightness ==
    /\ Dispatch("brightness")
    /\ argv.action = "set"
    /\ \E o \in StartFailures \cup OutputExits :
        OutputHandler(o,
            <<"B", "r", "i", "g", "h", "t", "n", "e", "s", "s", " ", "s",
            "e", "t", " ", "t", "o", ":", " ">>,
            <<"E", "r", "r", "o", "r", " ", "s", "e", "t", "t", "i", "n",
            "g", " ", "b", "r", "i", "g", "h", "t", "n", "e", "s", "s", ":",
            " ">>
            )

\* CLIHandler.get_brightness
GetBrightness ==
    /\ Dispatch("brightness")
    /\ argv.action = "get"
    /\ \E o \in StartFailures \cup OutputExits :
        OutputHandler(o,
            <<"C", "u", "r", "r", "e", "n", "t", " ", "b", "r", "i", "g",
            "h", "t", "n", "e", "s", "s", ":", " ">>,
            <<"E", "r", "r", "o", "r", " ", "g", "e", "t", "t", "i", "n",
            "g", " ", "b", "r", "i", "g", "h", "t", "n", "e", "s", "s", ":",
            " ">>
            )

\* main: volume or brightness without an action prints the help and returns.
PrintHelp ==
    /\ m_pc = "dispatch"
    /\ argv.command \in {"volume", "brightness"}
    /\ argv.action = ""
    /\ printed' = Append(printed, Printed("stdout",
                            <<"u", "s", "a", "g", "e", ":", " ">>
        ))
    /\ status' = JNum(0)
    /\ m_pc' = "exited"
    /\ UNCHANGED <<sdk, call, ret, log, argv>>
    /\ UNCHANGED vars_cli_rest

NextCli ==
    \/ ParseArgs \/ UsageError \/ NoCommand \/ NewHandler
    \/ ListApps \/ OpenApp \/ TraversePid \/ TraverseIdentifier
    \/ Click \/ TypeText \/ PressKey
    \/ SearchFiles
    \/ SetVolume \/ GetVolume \/ SetBrightness \/ GetBrightness
    \/ PrintHelp

SpecCli == InitCli /\ [][NextCli]_vars

(***************************************************************************)
(* SpecFind: find_running_app_pid, traverse_accessibility_tree and         *)
(* highlight_elements called with a pid or with an identifier.  The lookup *)
(* among the running applications is taken process by process: osascript,  *)
(* ps when osascript could not be started, the three loops over the list,  *)
(* and then the tool of the operation.                                     *)
(***************************************************************************)
Osascript ==
        <<"o", "s", "a", "s", "c", "r", "i", "p", "t">>

Ps ==
        <<"p", "s">>

CalculatorBundleId ==
        <<"c", "o", "m", ".", "a", "p", "p", "l", "e", ".", "c", "a", "l",
        "c", "u", "l", "a", "t", "o", "r">>

\* Identifiers callers pass: a name, a bundle id, a name in another case, a
\* part of a name, and the name of an application that is not running.
Identifiers ==
    { Calculator, CalculatorBundleId,
        <<"C", "A", "L", "C", "U", "L", "A", "T", "O", "R">>,
        <<"c", "a", "l", "c">>,
        <<"S", "a", "f", "a", "r", "i">> }

\* A listing in which the three ways to match disagree: for "Calculator"
\* the first entry holds it in its name, the second has it as its name in
\* another case, the third has it as its bundle id and the fourth as its name.
PriorityListing ==
        <<"M", "y", " ", "C", "a", "l", "c", "u", "l", "a", "t", "o", "r",
        ",", "3", "0", "1", ",", "c", "o", "m", ".", "x", ".", "m", "y", "c",
        "a", "l", "c", ",", " ", "c", "a", "l", "c", "u", "l", "a", "t", "o",
        "r", ",", "3", "0", "2", ",", "c", "o", "m", ".", "x", ".", "l", "o",
        "w", "e", "r", ",", " ", "O", "t", "h", "e", "r", ",", "3", "0", "3",
        ",", "C", "a", "l", "c", "u", "l", "a", "t", "o", "r", ",", " ", "C",
        "a", "l", "c", "u", "l", "a", "t", "o", "r", ",", "3", "0", "4", ",",
        "c", "o", "m", ".", "a", "p", "p", "l", "e", ".", "c", "a", "l", "c",
        "u", "l", "a", "t", "o", "r", "\n">>

FindOsaExits == OsaExits \cup { Exit(0, Text(PriorityListing), <<>>) }

FindCalls ==
    { [kind |-> k, pid_or_identifier |-> t] :
        k \in {"traverse_accessibility_tree", "highlight_elements"},
        t \in {JNum(CallerPid)} \cup { PyStr(i) : i \in Identifiers } }
    \cup { [kind |-> "find_running_app_pid", pid_or_identifier |-> PyStr(i)] :
            i \in Identifiers }

FindToolOf(kind) ==
    IF kind = "highlight_elements" THEN HighlightTraversalTool ELSE TraversalTool

InitFind ==
    /\ sdk = MacosSDK(BuildPath)
    /\ pc = "idle"
    /\ call = None
    /\ options = None
    /\ result = None
    /\ ret = None
    /\ log = <<>>
    /\ IdleDiff
    /\ IdleConc
    /\ IdleCli
    /\ IdleFind

vars_find_rest == <<sdk, options, result, before, after, diff, d_pc,
                    c_pc, c_call, c_proc, c_ret, argv, m_pc, printed, status>>

\* The call is made: "if isinstance(pid_or_identifier, str)" sends a str to
\* find_running_app_pid and takes an int as the pid.
FindCall ==
    /\ pc = "idle"
    /\ \E c \in FindCalls :
        /\ call' = c
        /\ pc' = IF c.pid_or_identifier.t = "chars" THEN "osascript" ELSE "resolve"
    /\ UNCHANGED <<ret, log, running, resolved>>
    /\ UNCHANGED vars_find_rest

\* list_running_applications runs osascript (core.py:233-277): when it
\* cannot be started the except clause goes on to ps, otherwise its output
\* decides the list.
RunOsascript ==
    /\ pc = "osascript"
    /\ \E osa \in FindOsaExits :
        /\ log' = Append(log, Event(IF osa.start = "spawned" THEN "exit" ELSE "nospawn",
                                    "lookup", Osascript, <<>>, osa))
        /\ IF osa.start = "spawned"
           THEN /\ running' = JArr(list_running_applications(osa, Missing))
                /\ pc' = "match"
           ELSE /\ pc' = "ps"
                /\ UNCHANGED running
    /\ UNCHANGED <<call, ret, resolved>>
    /\ UNCHANGED vars_find_rest

\* list_running_applications runs ps (core.py:279-305).
RunPs ==
    /\ pc = "ps"
    /\ \E ps \in PsExits :
        /\ log' = Append(log, Event(IF ps.start = "spawned" THEN "exit" ELSE "nospawn",
                                    "lookup", Ps, <<>>, ps))
        /\ running' = JArr(list_running_applications(log[Len(log)].outcome, ps))
    /\ pc' = "match"
    /\ UNCHANGED <<call, ret, resolved>>
    /\ UNCHANGED vars_find_rest

\* find_running_app_pid goes through the list and returns.
Match ==
    /\ pc = "match"
    /\ resolved' = first_match(running.v, call.pid_or_identifier.v)
    /\ IF call.kind = "find_running_app_pid"
       THEN /\ ret' = Ret(resolved')
            /\ pc' = "done"
       ELSE /\ pc' = "resolve"
            /\ UNCHANGED ret
    /\ UNCHANGED <<call, log, running>>
    /\ UNCHANGED vars_find_rest

\* The head of traverse_accessibility_tree and highlight_elements settles on
\* the pid or raises (core.py:331-336, 433-438).
Resolve ==
    /\ pc = "resolve"
    /\ \E r \in {resolve_pid(call.pid_or_identifier, resolved)} :
        IF r.ok
        THEN /\ resolved' = r.val
             /\ pc' = "tool"
             /\ UNCHANGED ret
        ELSE /\ ret' = r
             /\ pc' = "done"
             /\ UNCHANGED resolved
    /\ UNCHANGED <<call, log, running>>
    /\ UNCHANGED vars_find_rest

\* What the operation makes of what its tool did.
FindApply(o) ==
    IF call.kind = "highlight_elements"
    THEN highlight_tool(sdk, call.pid_or_identifier, o)
    ELSE traverse_tool(sdk, call.pid_or_identifier, o)

\* The operation starts its tool with str(pid) among the arguments.
FindToolStart ==
    /\ pc = "tool"
    /\ \/ /\ log' = Append(log, Event("spawn", "op", FindToolOf(call.kind),
                                      [pid |-> resolved], None))
          /\ pc' = "tool_wait"
          /\ UNCHANGED ret
       \/ \E o \in StartFailures :
          \E r \in {FindApply(o)} :
            /\ log' = Append(log, Event("nospawn", "op", FindToolOf(call.kind),
                                        [pid |-> resolved], o))
            /\ ret' = r
            /\ pc' = "done"
    /\ UNCHANGED <<call, running, resolved>>
    /\ UNCHANGED vars_find_rest

\* The tool exits and the operation returns or raises.
FindToolExit ==
    /\ pc = "tool_wait"
    /\ \E o \in TraversalExits :
       \E r \in {FindApply(o)} :
        /\ log' = Append(log, Event("exit", "op", FindToolOf(call.kind),
                                    [pid |-> resolved], o))
        /\ ret' = r
    /\ pc' = "done"
    /\ UNCHANGED <<call, running, resolved>>
    /\ UNCHANGED vars_find_rest

NextFind ==
    \/ FindCall
    \/ RunOsascript \/ RunPs \/ Match
    \/ Resolve
    \/ FindToolStart \/ FindToolExit

SpecFind == InitFind /\ [][NextFind]_vars

(***************************************************************************)
(* Properties of the differ (SpecDiff).                                    *)
(***************************************************************************)
\* Two elements carry the same identity key; an element without the key
\* matches nothing.
SameKey(e, f) ==
    /\ HasAttr(e, "ax_element")
    /\ HasAttr(f, "ax_element")
    /\ e.ax_element = f.ax_element

\* The elements of s whose identity key occurs on no element of others.
KeyAbsentFrom(s, others) ==
    LET Absent(e) == \A i \in 1..Len(others) : ~SameKey(e, others[i])
    IN  SelectSeq(s, Absent)

\* C1: for every pair of snapshots the differ returns added and removed
\* sequences that share no identity key, and a snapshot diffed against itself
\* gives empty added and removed sequences.
C1_DiffDisjointSelfEmpty ==
    d_pc = "done" =>
        /\ diff.ok
        /\ \A i \in 1..Len(diff.val.added_elements) :
             \A j \in 1..Len(diff.val.removed_elements) :
                ~SameKey(diff.val.added_elements[i], diff.val.removed_elements[j])
        /\ (before = after =>
                /\ diff.val.added_elements = <<>>
                /\ diff.val.removed_elements = <<>>)

\* C2: added is exactly the elements of after whose identity key is on no
\* element of before, and removed exactly the elements of before whose key is
\* on no element of after.
C2_AddedRemovedExact ==
    d_pc = "done" =>
        /\ diff.ok
        /\ diff.val.added_elements = KeyAbsentFrom(after.elements, before.elements)
        /\ diff.val.removed_elements = KeyAbsentFrom(before.elements, after.elements)

\* C3: the differ never raises on snapshots produced by the traversal parser,
\* whatever their elements: it always returns a TraversalDiff.
C3_DiffNeverRaises ==
    d_pc = "done" => diff.ok

\* C18: for every pair of snapshots the differ returns a diff whose modified
\* sequence is empty, whatever the elements of the two snapshots.
C18_ModifiedAlwaysEmpty ==
    d_pc = "done" =>
        /\ diff.ok
        /\ diff.val.modified_elements = <<>>

RECURSIVE IsSubsequence(_, _)
\* The members of s occur in t in the order they have in s.
IsSubsequence(s, t) ==
    IF s = <<>> THEN TRUE
    ELSE IF t = <<>> THEN FALSE
    ELSE IF Head(s) = Head(t) THEN IsSubsequence(Tail(s), Tail(t))
    ELSE IsSubsequence(s, Tail(t))

\* C20: the differ returns a diff whose added elements stand in the order
\* they have in the after-snapshot and whose removed elements stand in the
\* order they have in the before-snapshot.
C20_DiffKeepsSnapshotOrder ==
    d_pc = "done" =>
        /\ diff.ok
        /\ IsSubsequence(diff.val.added_elements, after.elements)
        /\ IsSubsequence(diff.val.removed_elements, before.elements)

(***************************************************************************)
(* Properties of one call (Spec).                                          *)
(***************************************************************************)
IsPerformAction == pc /= "idle" /\ call.kind = "perform_action"

IsDirectCall == pc /= "idle" /\ call.kind \in DirectOps

\* Positions of log at which the tool of stage was started, and at which its
\* invocation ended (it exited, or could not be started).
Started(stage) ==
    {i \in 1..Len(log) : log[i].stage = stage /\ log[i].ev \in {"spawn", "nospawn"}}

Ended(stage) ==
    {i \in 1..Len(log) : log[i].stage = stage /\ log[i].ev \in {"exit", "nospawn"}}

Attempted(stage) == Started(stage) /= {}

\* What the operation of a perform_action stage makes of the ended
\* invocation ev.
StageOutcome(ev) ==
    CASE ev.stage = "open" -> open_application(sdk, ev.args.identifier, ev.outcome)
      [] ev.stage \in {"before", "after"} ->
            traverse_accessibility_tree(sdk, ev.args.pid, ev.outcome)
      [] ev.stage = "input" ->
            execute_input_action(sdk, call.action.action, options, ev.outcome)

\* The operation of the stage failed.
StageFailed(stage) == \E i \in Ended(stage) : ~StageOutcome(log[i]).ok

\* The caller asked for the traversal of a stage and named a process, either
\* through the opened application or through pid_for_traversal.
TraversalAsked(flag) ==
    /\ flag
    /\ \/ Truthy(result.traversal_pid)
       \/ Truthy(options.pid_for_traversal)

\* C4: perform_action with an Input action and options that enable both
\* traversals and name pid_for_traversal returns a before-snapshot taken
\* before the input tool ran and an after-snapshot taken after it, both of
\* the named process, and with show_diff a diff, whenever no traversal fails.
C4_InputActionCapturesSnapshots ==
    ( /\ IsPerformAction
      /\ pc = "done"
      /\ call.action.kind = "Input"
      /\ options.traverse_before
      /\ options.traverse_after
      /\ Truthy(options.pid_for_traversal)
      /\ ~StageFailed("before")
      /\ ~StageFailed("after") )
    => /\ ret.ok
       /\ result.traversal_before /= None
       /\ result.traversal_after /= None
       /\ \A i \in Started("before") \cup Started("after") :
            log[i].args.pid = options.pid_for_traversal.v
       /\ \A i \in Ended("before"), j \in Started("input") : i < j
       /\ \A i \in Ended("input"), j \in Started("after") : i < j
       /\ (options.show_diff => result.traversal_diff /= None)

\* C5: perform_action acts on validated options only: they are the caller's
\* options (the defaults when none are given) except that show_diff forces
\* traverse_before and traverse_after on, whatever the caller supplied; and
\* validated() has that property on every ActionOptions value.
C5_ValidatedOptions ==
    /\ \A o \in CallerOptions :
         /\ validated(o).show_diff => validated(o).traverse_before
                                      /\ validated(o).traverse_after
         /\ validated(o).show_diff = o.show_diff
    /\ IsPerformAction =>
         LET given == IF call.options = None THEN DefaultActionOptions
                      ELSE call.options
         IN  /\ options.show_diff = given.show_diff
             /\ options.show_diff => options.traverse_before /\ options.traverse_after
             /\ ~options.show_diff =>
                   /\ options.traverse_before = given.traverse_before
                   /\ options.traverse_after = given.traverse_after
             /\ options.only_visible_elements = given.only_visible_elements
             /\ options.show_animation = given.show_animation
             /\ options.animation_duration = given.animation_duration
             /\ options.pid_for_traversal = given.pid_for_traversal
             /\ options.delay_after_action = given.delay_after_action
             /\ (Attempted("before") => options.traverse_before)
             /\ (Attempted("after") => options.traverse_after)

\* The caller asked for a diff with both traversals off, and the call ran to
\* its end on options with both traversals on.
C5_Witness ==
    /\ IsPerformAction
    /\ pc = "done"
    /\ call.options /= None
    /\ call.options.show_diff
    /\ ~call.options.traverse_before
    /\ ~call.options.traverse_after
    /\ options.traverse_before
    /\ options.traverse_after

\* A single-tool operation has ended on a non-zero exit of its tool.
FailedExit ==
    /\ IsDirectCall
    /\ pc = "done"
    /\ log[Len(log)].ev = "exit"
    /\ log[Len(log)].outcome.returncode /= 0

HasNotFound(stderr) == Contains(Lower(stderr), kw_not_found)

HasAccessibility(stderr) == Contains(Lower(stderr), kw_accessibility)

\* C6 as stated: on a non-zero exit every operation fails with
\* AppNotFoundError when stderr contains "not found", with AccessibilityError
\* when it contains "accessibility" (either of the two when it contains
\* both), and with MacosUseSDKError itself otherwise.
C6_ErrorKindByStderr ==
    FailedExit =>
        LET stderr == log[Len(log)].outcome.stderr
            nf == HasNotFound(stderr)
            acc == HasAccessibility(stderr)
        IN  /\ ~ret.ok
            /\ (nf /\ ~acc => ret.exc.type = "AppNotFoundError")
            /\ (acc /\ ~nf => ret.exc.type = "AccessibilityError")
            /\ (nf /\ acc => ret.exc.type \in {"AppNotFoundError", "AccessibilityError"})
            /\ (~nf /\ ~acc => ret.exc.type = "MacosUseSDKError")

\* The failure kind each operation gives a non-zero exit with this stderr.
ErrorKindOf(kind, stderr) ==
    CASE kind \in {"traverse_accessibility_tree", "highlight_elements"} ->
            IF HasAccessibility(stderr) THEN "AccessibilityError"
            ELSE IF HasNotFound(stderr) THEN "AppNotFoundError"
            ELSE "MacosUseSDKError"
      [] kind = "open_application" ->
            IF HasNotFound(stderr) THEN "AppNotFoundError" ELSE "MacosUseSDKError"
      [] kind \in {"input", "visual_input"} -> "InputSimulationError"
      [] kind = "search_files" -> "FileSearchError"
      [] kind = "output_controller" -> "OutputControllerError"

\* C6 (amended): on a non-zero exit, traverse and highlight fail with
\* AccessibilityError when stderr contains "accessibility" in any letter
\* case, else with AppNotFoundError when it contains "not found", else with
\* MacosUseSDKError; open fails with AppNotFoundError when stderr contains
\* "not found" and with MacosUseSDKError otherwise, "accessibility" or not;
\* input and visual input always fail with InputSimulationError, file search
\* with FileSearchError and output control with OutputControllerError.
C6_ErrorKindByOperation ==
    FailedExit =>
        /\ ~ret.ok
        /\ ret.exc.type = ErrorKindOf(call.kind, log[Len(log)].outcome.stderr)

\* A traversal whose tool failed with both keywords on stderr has ended with
\* AccessibilityError.
C6_Witness ==
    /\ FailedExit
    /\ call.kind = "traverse_accessibility_tree"
    /\ HasNotFound(log[Len(log)].outcome.stderr)
    /\ HasAccessibility(log[Len(log)].outcome.stderr)
    /\ ret.exc.type = "AccessibilityError"

\* C7: in perform_action with an Open action, once opening has failed the
\* call has returned its result with primary_action_error set; nothing was
\* started or slept after the open tool, and open_result, traversal_pid, both
\* snapshots, the diff and both traversal error fields are absent.
C7_FailedOpenReturnsAtOnce ==
    (IsPerformAction /\ call.action.kind = "Open" /\ StageFailed("open")) =>
        /\ pc = "done"
        /\ ret = Ret(result)
        /\ result.primary_action_error /= None
        /\ \A i \in 1..Len(log) : log[i].stage = "open"
        /\ result.open_result = None
        /\ result.traversal_pid = None
        /\ result.traversal_before = None
        /\ result.traversal_after = None
        /\ result.traversal_diff = None
        /\ result.traversal_before_error = None
        /\ result.traversal_after_error = None

\* An Open action whose tool exited non-zero, with both traversals, a diff
\* and a delay asked for, has returned.
C7_Witness ==
    /\ IsPerformAction
    /\ pc = "done"
    /\ call.action.kind = "Open"
    /\ StageFailed("open")
    /\ log[Len(log)].ev = "exit"
    /\ options.show_diff
    /\ options.delay_after_action > 0
    /\ ret.val.primary_action_error /= None

\* C8: in perform_action a failed before-traversal, input action or
\* after-traversal is recorded in its own error field and in no other, and
\* every later stage the caller enabled is still attempted: the input action
\* and the after-traversal after a failed before-traversal, the
\* after-traversal after a failed input action.
C8_StageFailuresIndependent ==
    (IsPerformAction /\ pc = "done" /\ ~StageFailed("open")) =>
        /\ (result.traversal_before_error /= None) = StageFailed("before")
        /\ (result.primary_action_error /= None) = StageFailed("input")
        /\ (result.traversal_after_error /= None) = StageFailed("after")
        /\ StageFailed("before") =>
              /\ (call.action.kind = "Input" => Attempted("input"))
              /\ (TraversalAsked(options.traverse_after) => Attempted("after"))
        /\ StageFailed("input") =>
              (TraversalAsked(options.traverse_after) => Attempted("after"))

\* C9: every stage of a call starts its tool at most once, and a non-zero
\* exit of the tool is a failure of the operation: a raised exception for a
\* single-tool operation, the stage's error field with the stage's result
\* field left absent inside perform_action.
C9_NoRetry ==
    /\ \A stage \in {"open", "before", "input", "after", "op"} : Spawns(stage) <= 1
    /\ \A i \in 1..Len(log) :
         (log[i].ev = "exit" /\ log[i].outcome.returncode /= 0) =>
            CASE log[i].stage = "op" -> pc = "done" /\ ~ret.ok
              [] log[i].stage = "open" ->
                    /\ result.primary_action_error /= None
                    /\ result.open_result = None
              [] log[i].stage = "before" ->
                    /\ result.traversal_before_error /= None
                    /\ result.traversal_before = None
              [] log[i].stage = "input" -> result.primary_action_error /= None
              [] log[i].stage = "after" ->
                    /\ result.traversal_after_error /= None
                    /\ result.traversal_after = None

\* A perform_action call has ended in which a traversal tool and the opener
\* before it each ran once and the traversal tool exited non-zero.
C9_Witness ==
    /\ IsPerformAction
    /\ pc = "done"
    /\ Spawns("open") = 1
    /\ Spawns("before") = 1
    /\ \E i \in Ended("before") :
         log[i].ev = "exit" /\ log[i].outcome.returncode /= 0
    /\ Spawns("after") = 1

Waiting == pc \in {"open_wait", "before_wait", "input_wait", "after_wait", "op_wait"}

\* C11: a call that waits for its spawned tool stays waiting until that
\* tool exits: every step that ends the wait is the tool's exit (no timeout,
\* no kill); and when every spawned tool exits, every call, perform_action
\* included, reaches its end, returning or raising.
C11_CompletesOnlyAfterToolExit ==
    /\ [][(Waiting /\ pc' /= pc) =>
            /\ Len(log') = Len(log) + 1
            /\ log'[Len(log')].ev = "exit"]_vars
    /\ ([]<>(~Waiting)) => ((pc /= "idle") ~> (pc = "done" /\ ret /= None))

\* A perform_action call has returned after waiting for the opener and for
\* both traversals.
C11_Witness ==
    /\ IsPerformAction
    /\ pc = "done"
    /\ ret.ok
    /\ Len(log) >= 6
    /\ log[Len(log)].ev = "exit"
    /\ log[Len(log)].stage = "after"

(***************************************************************************)
(* Properties of _run_tool and _parse_json_response.                       *)
(***************************************************************************)
unknown_error ==
    <<"U", "n", "k", "n", "o", "w", "n", " ", "e", "r", "r", "o", "r">>

\* Positions of log at which a tool exited with a non-zero code.
NonZeroExits ==
    {i \in 1..Len(log) : log[i].ev = "exit" /\ log[i].outcome.returncode /= 0}

\* C12: whenever a tool has exited with a non-zero code, _run_tool on that
\* invocation raises MacosUseSDKError, the message holds the tool name and
\* what the tool wrote to stderr (stripped), or "Unknown error" when stderr
\* is empty; it returns no CompletedProcess, and a single-tool operation
\* that ended on such an exit has raised.
C12_NonZeroExitRaises ==
    /\ \A i \in NonZeroExits :
        LET r == run_tool(sdk.swift_build_path, log[i].tool, log[i].outcome)
            stderr == log[i].outcome.stderr
        IN  /\ ~r.ok
            /\ r.exc.type = "MacosUseSDKError"
            /\ Contains(r.exc.msg, log[i].tool)
            /\ IF stderr = <<>>
               THEN Contains(r.exc.msg, unknown_error)
               ELSE /\ Contains(r.exc.msg, Strip(stderr))
                    /\ ~Contains(r.exc.msg, unknown_error)
    /\ FailedExit => ~ret.ok

\* A single-tool operation has raised with what its failed tool wrote to
\* stderr.
C12_Witness ==
    /\ FailedExit
    /\ ~ret.ok
    /\ log[Len(log)].outcome.stderr = <<"b", "o", "o", "m">>
    /\ Contains(ret.exc.msg, <<"b", "o", "o", "m">>)

\* The response category each decoding operation passes to
\* _parse_json_response.
ResponseType(kind) ==
    CASE kind = "traverse_accessibility_tree" ->
    <<"t", "r", "a", "v", "e", "r", "s", "a", "l">>
      [] kind = "highlight_elements" ->
    <<"h", "i", "g", "h", "l", "i", "g", "h", "t", " ", "t", "r", "a", "v",
              "e", "r", "s", "a", "l">>
      [] kind = "search_files" ->
    <<"f", "i", "l", "e", " ", "s", "e", "a", "r", "c", "h">>

\* The message holds "Failed to parse <category> JSON response: <decode error>".
IsParseFailure(msg, kind, stdout) ==
    Contains(msg,
    <<"F", "a", "i", "l", "e", "d", " ", "t", "o", " ", "p", "a", "r", "s",
              "e", " ">>
        \o ResponseType(kind) \o
    <<" ", "J", "S", "O", "N", " ", "r", "e", "s", "p", "o", "n", "s", "e",
              ":", " ">>
        \o json_loads(stdout).exc.msg)

\* The tool of the event exited zero and wrote something that is not JSON.
ExitedWithNotJson(e) ==
    /\ e.ev = "exit"
    /\ e.outcome.returncode = 0
    /\ ~json_loads(e.outcome.stdout).ok

\* C13: when the tool exits zero and its stdout is not JSON, traversal,
\* highlight and file search raise (MacosUseSDKError, or FileSearchError for
\* file search) with a message that names the response category and holds
\* the decoder's message; inside perform_action a traversal stage that
\* ended so leaves its snapshot None and records that message.
C13_NotJsonIsParseError ==
    /\ ( /\ IsDirectCall
         /\ pc = "done"
         /\ call.kind \in {"traverse_accessibility_tree", "highlight_elements",
                           "search_files"}
         /\ ExitedWithNotJson(log[Len(log)]) )
       => /\ ~ret.ok
          /\ ret.exc.type = IF call.kind = "search_files" THEN "FileSearchError"
                            ELSE "MacosUseSDKError"
          /\ IsParseFailure(ret.exc.msg, call.kind, log[Len(log)].outcome.stdout)
    /\ (IsPerformAction /\ pc = "done") =>
        \A i \in 1..Len(log) :
            /\ (log[i].stage = "before" /\ ExitedWithNotJson(log[i])) =>
                /\ result.traversal_before = None
                /\ result.traversal_before_error /= None
                /\ IsParseFailure(result.traversal_before_error.v,
                                  "traverse_accessibility_tree", log[i].outcome.stdout)
            /\ (log[i].stage = "after" /\ ExitedWithNotJson(log[i])) =>
                /\ result.traversal_after = None
                /\ result.traversal_after_error /= None
                /\ IsParseFailure(result.traversal_after_error.v,
                                  "traverse_accessibility_tree", log[i].outcome.stdout)

\* File search has raised on a stdout that is not JSON.
C13_Witness ==
    /\ IsDirectCall
    /\ pc = "done"
    /\ call.kind = "search_files"
    /\ ExitedWithNotJson(log[Len(log)])
    /\ ret.exc.type = "FileSearchError"

(***************************************************************************)
(* Properties of _parse_response_data, seen through traverse and highlight *)
(***************************************************************************)
\* A traversal or highlight call has ended on a tool that exited zero and
\* printed a JSON document.
ParsedDocument ==
    /\ IsDirectCall
    /\ pc = "done"
    /\ call.kind \in {"traverse_accessibility_tree", "highlight_elements"}
    /\ log[Len(log)].ev = "exit"
    /\ log[Len(log)].outcome.returncode = 0
    /\ log[Len(log)].outcome.stdout.t = "json"

TraversalDocument == log[Len(log)].outcome.stdout.v

\* A traversal document: an object whose "stats", when given, is an object,
\* whose "elements", when given, is an array of objects, and without
\* browser data.
IsTraversalDoc(doc) ==
    /\ doc.t = "obj"
    /\ "stats" \in DOMAIN doc.v => doc.v.stats.t = "obj"
    /\ "elements" \in DOMAIN doc.v =>
        /\ doc.v.elements.t = "arr"
        /\ \A i \in 1..Len(doc.v.elements.v) : doc.v.elements.v[i].t = "obj"
    /\ "browser_data" \notin DOMAIN doc.v

NumericStats ==
    {"count", "excluded_count", "excluded_non_interactable", "excluded_no_text",
     "with_text_count", "without_text_count", "visible_elements_count",
     "browser_elements_count"}

\* The statistics that the "stats" object stats_json leaves out are zero, and
\* left-out role counts are empty.
MissingStatsDefaulted(stats, stats_json) ==
    /\ \A f \in NumericStats \ DOMAIN stats_json : stats[f] = JNum(0)
    /\ "role_counts" \notin DOMAIN stats_json => stats.role_counts = EmptyDict

\* C14: parsing a traversal document whose "elements" array is empty does
\* not fail; the result has no elements, and every statistic the document
\* does not give is zero.
C14_EmptyElementsParse ==
    ( /\ ParsedDocument
      /\ IsTraversalDoc(TraversalDocument)
      /\ "elements" \in DOMAIN TraversalDocument.v
      /\ TraversalDocument.v.elements = EmptyList )
    => /\ ret.ok
       /\ ret.val.elements = <<>>
       /\ MissingStatsDefaulted(ret.val.stats,
                                Get(TraversalDocument.v, "stats", EmptyDict).v)

\* A document that has an empty "elements" array and nothing else was parsed.
C14_Witness ==
    /\ ParsedDocument
    /\ TraversalDocument = JObj([elements |-> EmptyList])
    /\ ret.ok
    /\ ret.val.elements = <<>>
    /\ ret.val.stats.count = JNum(0)

\* C15: parsing a traversal document without a "stats" key does not fail
\* and gives statistics whose numeric fields are all zero and whose role
\* counts are empty; a numeric field missing from a given "stats" object is
\* zero; text, x, y, width and height missing from an element are None.
C15_MissingFieldsDefault ==
    (ParsedDocument /\ IsTraversalDoc(TraversalDocument))
    => /\ ret.ok
       /\ "stats" \notin DOMAIN TraversalDocument.v =>
            /\ \A f \in NumericStats : ret.val.stats[f] = JNum(0)
            /\ ret.val.stats.role_counts = EmptyDict
       /\ MissingStatsDefaulted(ret.val.stats,
                                Get(TraversalDocument.v, "stats", EmptyDict).v)
       /\ LET es == Get(TraversalDocument.v, "elements", EmptyList).v
          IN  /\ Len(ret.val.elements) = Len(es)
              /\ \A i \in 1..Len(es) :
                    \A f \in {"text", "x", "y", "width", "height"} \ DOMAIN es[i].v :
                        ret.val.elements[i][f] = None

\* A document without "stats" whose one element has neither text nor a
\* complete bounding box was parsed.
C15_Witness ==
    /\ ParsedDocument
    /\ "stats" \notin DOMAIN TraversalDocument.v
    /\ IsTraversalDoc(TraversalDocument)
    /\ "elements" \in DOMAIN TraversalDocument.v
    /\ Len(TraversalDocument.v.elements.v) = 1
    /\ ret.ok
    /\ ret.val.stats.count = JNum(0)
    /\ ret.val.elements[1].text = None
    /\ ret.val.elements[1].width = None
    /\ ret.val.elements[1].x = JNum(10)

(***************************************************************************)
(* Properties of the stderr markers.                                       *)
(***************************************************************************)
\* result.stderr.strip().split('\n')
StderrLines(stderr) == Split(Strip(stderr), <<"\n">>)

\* The lines that hold the marker.
MarkerLines(lines, marker) == {i \in 1..Len(lines) : Contains(lines[i], marker)}

\* What follows the first occurrence of marker in line, stripped.
TextAfter(line, marker) ==
    Strip(SubSeq(line, Find(line, marker) + Len(marker), Len(line)))

\* What follows the last colon of line.
AfterLastColon(line) ==
    LET colons == {k \in 1..Len(line) : line[k] = ":"}
        last == CHOOSE k \in colons : \A j \in colons : j <= k
    IN  SubSeq(line, last + 1, Len(line))

\* A direct call of kind has returned a result after its tool exited zero.
ReturnedFrom(kind) ==
    /\ IsDirectCall
    /\ pc = "done"
    /\ call.kind = kind
    /\ log[Len(log)].ev = "exit"
    /\ ret.ok

LastStderrLines == StderrLines(log[Len(log)].outcome.stderr)

default_processing_time ==
    <<"0", ".", "0", "0", "0">>

\* Without a marker line the field has its default.
MarkerDefaults ==
    /\ ( /\ ReturnedFrom("open_application")
         /\ MarkerLines(LastStderrLines, kw_total_time) = {} )
       => ret.val.processing_time_seconds = default_processing_time
    /\ ( /\ ReturnedFrom("output_controller")
         /\ MarkerLines(LastStderrLines, kw_success) = {} )
       => ret.val.message = <<>>

\* C16 as stated: without a marker line the field has its default
\* ("0.000", ""), and with one the field is the text after the marker.
C16_FieldIsTextAfterMarker ==
    /\ MarkerDefaults
    /\ ( /\ ReturnedFrom("open_application")
         /\ MarkerLines(LastStderrLines, kw_total_time) /= {} )
       => \E i \in MarkerLines(LastStderrLines, kw_total_time) :
            ret.val.processing_time_seconds = TextAfter(LastStderrLines[i], kw_total_time)
    /\ ( /\ ReturnedFrom("output_controller")
         /\ MarkerLines(LastStderrLines, kw_success) /= {} )
       => \E i \in MarkerLines(LastStderrLines, kw_success) :
            ret.val.message = TextAfter(LastStderrLines[i], kw_success)

\* C16, amended: without a marker line the field has its default; with one,
\* processing_time_seconds is what follows the last colon of the last line
\* holding "total execution time:", stripped and with every " seconds"
\* removed, and message is what follows the first "Success:" of the first
\* line holding it, stripped.
C16_MarkerFallback ==
    /\ MarkerDefaults
    /\ ( /\ ReturnedFrom("open_application")
         /\ MarkerLines(LastStderrLines, kw_total_time) /= {} )
       => LET found == MarkerLines(LastStderrLines, kw_total_time)
              last == CHOOSE i \in found : \A j \in found : j <= i
          IN  ret.val.processing_time_seconds =
                Replace(Strip(AfterLastColon(LastStderrLines[last])),
                        <<" ", "s", "e", "c", "o", "n", "d", "s">>, <<>>)
    /\ ( /\ ReturnedFrom("output_controller")
         /\ MarkerLines(LastStderrLines, kw_success) /= {} )
       => LET found == MarkerLines(LastStderrLines, kw_success)
              first == CHOOSE i \in found : \A j \in found : i <= j
          IN  ret.val.message = TextAfter(LastStderrLines[first], kw_success)

\* open_application has returned after a stderr with two marker lines, the
\* last one with a colon in its value.
C16_Witness ==
    /\ ReturnedFrom("open_application")
    /\ Cardinality(MarkerLines(LastStderrLines, kw_total_time)) = 2
    /\ ret.val.processing_time_seconds = <<"3", "0">>

(***************************************************************************)
(* Properties of the command-line program (SpecCli).                       *)
(***************************************************************************)
\* The process could not be started or exited non-zero.
ProcessFailed(o) == o.start /= "spawned" \/ o.returncode /= 0

\* list_running_applications got its list from neither source: osascript
\* ran and exited non-zero (ps is then not tried), or osascript could not be
\* started and ps failed too.
ListingFailed ==
    /\ call /= None
    /\ call.kind = "list_running_applications"
    /\ IF log[1].outcome.start = "spawned"
       THEN log[1].outcome.returncode /= 0
       ELSE ProcessFailed(log[2].outcome)

\* The operation the handler awaited failed: it raised, or it is the
\* listing and got no list.
OperationFailed ==
    \/ ret /= None /\ ~ret.ok
    \/ ListingFailed

\* C17: when the operation a subcommand runs has failed, the process has
\* printed to stderr and exits with a non-zero status; so a process that
\* exits with status 0 ran an operation that succeeded.
C17_FailureExitsNonZero ==
    (m_pc = "exited" /\ OperationFailed)
    => /\ status /= JNum(0)
       /\ \E i \in 1..Len(printed) : printed[i].stream = "stderr"

(***************************************************************************)
(* Properties of the order of perform_action's stages (Spec).              *)
(***************************************************************************)
\* The place of a stage in perform_action.
StageRank(stage) ==
    CASE stage = "open" -> 1
      [] stage = "before" -> 2
      [] stage = "input" -> 3
      [] stage = "delay" -> 4
      [] stage = "after" -> 5

\* Positions of log that belong to stage.
StageEvents(stage) == {i \in 1..Len(log) : log[i].stage = stage}

ToolFailed(ev) ==
    \/ ev.ev = "nospawn" /\ ev.outcome = Missing
    \/ ev.ev = "exit" /\ ev.outcome.returncode /= 0

\* The tool exited zero with a stdout that is not JSON.
UnparseableResponse(ev) ==
    /\ ev.ev = "exit"
    /\ ev.outcome.returncode = 0
    /\ ~json_loads(ev.outcome.stdout).ok

\* The error kind the operations that do not look at the text fail with.
OwnErrorKind(kind) ==
    CASE kind \in {"input", "visual_input"} -> "InputSimulationError"
      [] kind = "search_files" -> "FileSearchError"
      [] kind = "output_controller" -> "OutputControllerError"

LookupEvents == {i \in 1..Len(log) : log[i].stage = "lookup"}

ToolEvents == {i \in 1..Len(log) : log[i].stage = "op"}

\* The call is one of the two operations that take a pid or an identifier.
IsFindOperation ==
    /\ pc /= "idle"
    /\ call.kind \in {"traverse_accessibility_tree", "highlight_elements"}

\* The lookup is over and no running application has the identifier as its
\* bundle id or, in any letter case, in its name.
NoAppMatches(identifier) ==
    /\ running /= None
    /\ \A i \in 1..Len(running.v) :
        /\ running.v[i].bundle_id /= identifier
        /\ ~Contains(Lower(running.v[i].name), Lower(identifier))

\* C22: traverse_accessibility_tree and highlight_elements called with a str
\* that no running application matches fail with AppNotFoundError and never
\* start their tool; called with an int they run neither osascript nor ps
\* and start their tool with that pid.
C22_ResolveBeforeTool ==
    IsFindOperation =>
        /\ ( /\ call.pid_or_identifier.t = "chars"
             /\ pc \notin {"osascript", "ps", "match"}
             /\ NoAppMatches(call.pid_or_identifier.v) )
           => /\ ToolEvents = {}
              /\ pc \in {"resolve", "done"}
              /\ pc = "done" => /\ ~ret.ok
                                /\ ret.exc.type = "AppNotFoundError"
        /\ call.pid_or_identifier.t = "num"
           => /\ LookupEvents = {}
              /\ running = None
              /\ pc \in {"tool_wait", "done"} =>
                    /\ ToolEvents /= {}
                    /\ \A i \in ToolEvents :
                        /\ log[i].tool = FindToolOf(call.kind)
                        /\ log[i].args.pid = call.pid_or_identifier

\* highlight_elements was called with the name of an application that is not
\* among the running ones and has failed before its tool was started.
C22_Witness ==
    /\ IsFindOperation
    /\ pc = "done"
    /\ call.kind = "highlight_elements"
    /\ call.pid_or_identifier.t = "chars"
    /\ running /= None
    /\ Len(running.v) >= 2
    /\ NoAppMatches(call.pid_or_identifier.v)
    /\ ~ret.ok
    /\ ret.exc.type = "AppNotFoundError"
    /\ ToolEvents = {}

\* The listing gave nothing: osascript ran and exited non-zero, or it could
\* not be started and ps could not be started or exited non-zero.
ListingGaveNothing ==
    /\ LookupEvents /= {}
    /\ IF log[1].outcome.start = "spawned"
       THEN log[1].outcome.returncode /= 0
       ELSE /\ Len(log) >= 2
            /\ \/ log[2].outcome.start /= "spawned"
               \/ log[2].outcome.returncode /= 0

\* The pid of the first application of the list among those at positions S.
FirstOf(S) == JNum(running.v[CHOOSE i \in S : \A j \in S : i <= j].pid)

\* C23: find_running_app_pid returns the pid of the first application whose
\* bundle id is the identifier; when there is none, of the first whose name
\* is the identifier in any letter case; when there is none, of the first
\* whose name holds the identifier in any letter case; and None when nothing
\* matches or the listing failed.  It never raises.
C23_FindByPriority ==
    ( /\ pc \in {"resolve", "tool", "tool_wait", "done"}
      /\ call.pid_or_identifier.t = "chars" )
    => LET identifier == call.pid_or_identifier.v
           found == IF call.kind = "find_running_app_pid" THEN ret.val ELSE resolved
           by_bundle_id == {i \in 1..Len(running.v) : running.v[i].bundle_id = identifier}
           by_name == {i \in 1..Len(running.v) :
                        Lower(running.v[i].name) = Lower(identifier)}
           by_part == {i \in 1..Len(running.v) :
                        Contains(Lower(running.v[i].name), Lower(identifier))}
       IN  /\ call.kind = "find_running_app_pid" => pc = "done" /\ ret.ok
           /\ by_bundle_id /= {} => found = FirstOf(by_bundle_id)
           /\ (by_bundle_id = {} /\ by_name /= {}) => found = FirstOf(by_name)
           /\ (by_bundle_id = {} /\ by_name = {} /\ by_part /= {})
              => found = FirstOf(by_part)
           /\ (by_bundle_id = {} /\ by_name = {} /\ by_part = {}) => found = None
           /\ ListingGaveNothing => found = None

\* find_running_app_pid has returned the application with the identifier as
\* its bundle id although two earlier applications match it by name.
C23_Witness ==
    /\ pc = "done"
    /\ call.kind = "find_running_app_pid"
    /\ call.pid_or_identifier.v = Calculator
    /\ Len(running.v) = 4
    /\ Contains(Lower(running.v[1].name), Lower(Calculator))
    /\ Lower(running.v[2].name) = Lower(Calculator)
    /\ running.v[3].bundle_id = Calculator
    /\ ret = Ret(JNum(running.v[3].pid))

(***************************************************************************)
(* Properties of what perform_action returns (Spec).                       *)
(***************************************************************************)
\* perform_action has ended, by return or by raise.
PerformActionEnded == IsPerformAction /\ pc = "done"

\* perform_action has returned an ActionResult.
PerformActionReturned == PerformActionEnded /\ ret.ok

\* C24: perform_action never raises: whatever the action, the options and
\* the outcomes of the tools, it ends by returning its ActionResult, and a
\* stage that failed has its error field set in it.
C24_PerformActionNeverRaises ==
    PerformActionEnded =>
        /\ ret.ok
        /\ ret.val = result
        /\ (StageFailed("open") \/ StageFailed("input"))
           => ret.val.primary_action_error /= None
        /\ StageFailed("before") => ret.val.traversal_before_error /= None
        /\ StageFailed("after") => ret.val.traversal_after_error /= None

\* C25: in a returned ActionResult a traversal stage never has both its
\* snapshot and its error; it has neither when the validated options leave
\* the stage off or no traversal pid is there (None or 0); and open_result
\* is set exactly when traversal_pid is.
C25_ResultFieldsConsistent ==
    PerformActionReturned =>
        LET r == ret.val
        IN  /\ ~(r.traversal_before /= None /\ r.traversal_before_error /= None)
            /\ ~(r.traversal_after /= None /\ r.traversal_after_error /= None)
            /\ (~options.traverse_before \/ ~Truthy(r.traversal_pid))
               => /\ r.traversal_before = None
                  /\ r.traversal_before_error = None
            /\ (~options.traverse_after \/ ~Truthy(r.traversal_pid))
               => /\ r.traversal_after = None
                  /\ r.traversal_after_error = None
            /\ (r.open_result /= None) = (r.traversal_pid /= None)

\* A returned result with a before-snapshot, an after-traversal error, an
\* opener result and a pid.
C25_Witness ==
    /\ PerformActionReturned
    /\ ret.val.open_result /= None
    /\ ret.val.traversal_pid /= None
    /\ ret.val.traversal_before /= None
    /\ ret.val.traversal_before_error = None
    /\ ret.val.traversal_after = None
    /\ ret.val.traversal_after_error /= None

\* C26: in a returned ActionResult traversal_diff is set only if the caller
\* asked for show_diff and both snapshots are set; when a traversal failed
\* or was skipped the diff is absent and the error fields say what the
\* stages did and nothing about the diff.
C26_DiffOnlyFromBothSnapshots ==
    PerformActionReturned =>
        LET r == ret.val
            given == IF call.options = None THEN DefaultActionOptions
                     ELSE call.options
        IN  /\ r.traversal_diff /= None
               => /\ given.show_diff
                  /\ r.traversal_before /= None
                  /\ r.traversal_after /= None
            /\ (r.traversal_before = None \/ r.traversal_after = None)
               => /\ r.traversal_diff = None
                  /\ (r.primary_action_error /= None)
                     = (StageFailed("open") \/ StageFailed("input"))
                  /\ (r.traversal_before_error /= None) = StageFailed("before")
                  /\ (r.traversal_after_error /= None) = StageFailed("after")

\* A diff was asked for, the before-traversal gave a snapshot and the
\* after-traversal failed: the result has no diff.
C26_Witness ==
    /\ PerformActionReturned
    /\ call.options /= None
    /\ call.options.show_diff
    /\ ret.val.traversal_before /= None
    /\ StageFailed("after")
    /\ ret.val.traversal_after = None
    /\ ret.val.traversal_diff = None

(***************************************************************************)
(* Properties of what the single-tool operations raise and return (Spec).  *)
(***************************************************************************)
\* A single-tool operation has ended.
DirectCallEnded == IsDirectCall /\ pc = "done"

\* C27: whatever a public operation raises is a MacosUseSDKError or one of
\* its five specializations, also when the tool exited zero with a stdout of
\* another shape than expected.
C27_EveryFailureIsSDKError ==
    (DirectCallEnded /\ ~ret.ok) => IsSDKError(ret.exc)

\* What the try block of traverse_accessibility_tree or highlight_elements
\* did with the last outcome of the tool, before the except clause.
TryBlock ==
    run_and_parse(sdk, ToolOf(call.kind), ResponseType(call.kind),
                  log[Len(log)].outcome)

\* C28: in traverse_accessibility_tree and highlight_elements a failure text
\* with "accessibility" in any letter case gives AccessibilityError, with
\* "not found" in it or not, and AppNotFoundError is given exactly when the
\* text has "not found" and not "accessibility".
C28_AccessibilityFirst ==
    ( /\ DirectCallEnded
      /\ call.kind \in {"traverse_accessibility_tree", "highlight_elements"}
      /\ ~TryBlock.ok
      /\ IsSDKError(TryBlock.exc) )
    => /\ ~ret.ok
       /\ HasAccessibility(TryBlock.exc.msg) => ret.exc.type = "AccessibilityError"
       /\ (ret.exc.type = "AppNotFoundError")
          = (HasNotFound(TryBlock.exc.msg) /\ ~HasAccessibility(TryBlock.exc.msg))

\* highlight_elements has failed with AccessibilityError on a text that has
\* both keywords, "Accessibility" with a capital letter.
C28_Witness ==
    /\ DirectCallEnded
    /\ call.kind = "highlight_elements"
    /\ ~TryBlock.ok
    /\ HasNotFound(TryBlock.exc.msg)
    /\ HasAccessibility(TryBlock.exc.msg)
    /\ ~Contains(TryBlock.exc.msg, kw_accessibility)
    /\ ~ret.ok
    /\ ret.exc.type = "AccessibilityError"

\* The output-control tool has exited zero.
OutputToolExitedZero ==
    /\ DirectCallEnded
    /\ call.kind = "output_controller"
    /\ log[Len(log)].ev = "exit"
    /\ log[Len(log)].outcome.returncode = 0

\* C29: when the output-control tool exits zero the operation returns a
\* result: its value is the number stdout holds, 0.5 for "0.5", and None
\* when stdout is empty or is no number.
C29_ExitZeroAlwaysReturns ==
    OutputToolExitedZero =>
        LET printed_value == Strip(StdoutChars(log[Len(log)].outcome.stdout))
            number == ParseFloat(printed_value)
        IN  /\ ret.ok
            /\ (printed_value = <<>> \/ ~number.ok) => ret.val.value = None
            /\ (printed_value /= <<>> /\ number.ok) => ret.val.value = number.val
            /\ printed_value = <<"0", ".", "5">>
               => /\ ret.val.value.num = 5
                  /\ ret.val.value.scale = 1

\* The tool exited zero after printing a word and the operation has returned
\* a result without a value.
C29_Witness ==
    /\ OutputToolExitedZero
    /\ Strip(StdoutChars(log[Len(log)].outcome.stdout)) = <<"l", "o", "u", "d">>
    /\ ret.ok
    /\ ret.val.value = None

====
